---------------------------- MODULE Spec2Model ----------------------------
(***************************************************************************)
(* A state-machine model of webthing-node's CoAP binding: the Thing entity *)
(* model (properties, actions, events, subscriber fan-out), the CoAP       *)
(* resource handlers and the timer-driven action classes of the test and   *)
(* example things.                                                         *)
(*                                                                         *)
(* JSON values are modelled by string tokens:                              *)
(*   "true" "false"  the booleans        "0" "5" "43"  the numbers         *)
(*   ""              the empty string    "null"        null                *)
(*   "d1"            {"duration": 1}     "d0"          {"duration": 0}     *)
(*   "b5d1"          {"brightness": 5, "duration": 1}                      *)
(*   "undefined"     JavaScript's undefined (never a JSON value)           *)
(***************************************************************************)
EXTENDS Integers, Sequences, FiniteSets, TLC

VARIABLES
    mode,       \* "single" (SingleThing registry) or "multi" (MultipleThings)
    things,     \* the registry's Things: index -> Thing object
    inst,       \* every Action object ever constructed (the heap), by handle
    count,      \* TestTimerAction.count, the static id counter
    uuids,      \* number of uuidv4() tokens drawn so far
    regs,       \* number of addAvailableAction calls made after construction
    written,    \* per property, the value of the last successful mutation
    closed,     \* the subscriber handles whose connection is closed
    server,     \* the CoapWebThingServer object: basePath (and `given`, the
                \* basePath argument of its constructor), the advertisements
                \* made so far (this.mdns is the last), the listener and its
                \* outstanding listen callbacks, the promise of the stop()
                \* under way and the number of retry timers that are armed
    last        \* the running task: its request, its answer, the messages sent

vars == <<mode, things, inst, count, uuids, regs, written, closed, server, last>>

-----------------------------------------------------------------------------
(* Bounds of the model *)

MaxInst == 2
MaxRegs == 1
MaxEvents == 2
MaxKeys == 3
MaxResources == 2
MaxLive == 3
MaxRetry == 2
MaxStarts == 2

-----------------------------------------------------------------------------
(* JSON values and JavaScript coercions *)

\* Values for which JavaScript's ToBoolean yields false.
Falsy(v) == v \in {"false", "0", "", "null", "undefined"}

\* `input || null`
OrNull(v) == IF Falsy(v) THEN "null" ELSE v

\* ajv.validate(schema, value), per schema used by the things of the model.
\*   timerInput: {type: object, required: [duration], duration: integer >= 1}
\*   fadeInput:  {type: object, required: [brightness, duration], ...}
\*   intInput:   {type: integer}
\*   boolean, number: {type: boolean}, {type: number} of a property
\* The JSON numbers among the value tokens are "0", "5", "43", "102" and
\* "255", all of them integers.
Validate(schema, v) ==
    CASE schema = "timerInput" -> v \in {"d1", "b5d1"}
      [] schema = "fadeInput"  -> v \in {"b5d1"}
      [] schema = "intInput"   -> v \in {"0", "5", "43", "102", "255"}
      [] schema = "boolean"    -> v \in {"true", "false"}
      [] schema = "number"     -> v \in {"0", "5", "43", "102", "255"}
      [] OTHER                 -> FALSE

\* this.input.brightness for a non-null input
BrightnessOf(v) == IF v = "b5d1" THEN "5" ELSE "undefined"

\* Action identifiers.  A number n is [k |-> "num", v |-> n]; a string is
\* [k |-> "str", v |-> i] where i < UuidBase stands for the decimal text of i
\* and UuidBase + j for the j-th uuid token.  `===` is equality of these.
UuidBase == 100
NumId(n) == [k |-> "num", v |-> n]
StrId(i) == [k |-> "str", v |-> i]
\* the text of an identifier as it appears in a request path
PathText(id) == StrId(id.v)

-----------------------------------------------------------------------------
(* Own-property key order of a JavaScript object *)

\* The number a key denotes when it is a canonical array index, -1 otherwise
\* (the names of the model that are such keys are "1" and "7").
IndexKey(key) == CASE key = "1" -> 1 [] key = "7" -> 7 [] OTHER -> -1

\* The keys of an object, as `for ... in` and Object.keys enumerate them,
\* after `obj[key] = ...`: an existing key keeps its place; an array-index key
\* goes among the array-index keys, which come first in ascending order; any
\* other key goes last.
RECURSIVE InsertIndexKey(_, _)
InsertIndexKey(keys, key) ==
    IF keys = <<>> THEN <<key>>
    ELSE IF IndexKey(Head(keys)) = -1 \/ IndexKey(Head(keys)) > IndexKey(key)
    THEN <<key>> \o keys
    ELSE <<Head(keys)>> \o InsertIndexKey(Tail(keys), key)

SetKey(keys, key) ==
    IF \E i \in 1..Len(keys) : keys[i] = key THEN keys
    ELSE IF IndexKey(key) = -1 THEN Append(keys, key)
    ELSE InsertIndexKey(keys, key)

\* The history of registrations after one of `name`
Registered(names, name) ==
    IF \E i \in 1..Len(names) : names[i] = name THEN names
    ELSE Append(names, name)

-----------------------------------------------------------------------------
(* The things of the test suite *)

Handles == {"ws1", "ws2"}
NoSent == [ws \in Handles |-> <<>>]

\* new Lamp(): property on = true, action SwitchOffTimer, event overheated.
\* A path or URL is the sequence of its pieces: '' is <<>>, '/' is <<"/">>,
\* '/api/0' is <<"/", "api", "/", "0">>.  hrefPrefix is '' and uiHref null
\* until they are set.
\* propertyKeys, actionKeys and eventKeys are the key orders of
\* this.properties, this.availableActions (and this.actions) and
\* this.availableEvents.  `registered` is no field of the Thing: it is the
\* history of its registrations, the names in the order of their first
\* addAvailableAction / addAvailableEvent call.
Lamp ==
    [ props     |-> ("on" :> [value |-> "true", type |-> "boolean",
                              readOnly |-> FALSE, atType |-> "OnOffProperty",
                              title |-> "On/Off", hrefPrefix |-> <<>>]),
      availableActions |-> ("SwitchOffTimer" :>
                              [hasInput |-> TRUE, input |-> "timerInput",
                               class |-> "TestTimerAction", links |-> <<>>]),
      actions   |-> ("SwitchOffTimer" :> <<>>),
      availableEvents |-> ("overheated" :> [subscribers |-> {}, links |-> <<>>]),
      events    |-> <<>>,
      subscribers |-> {},
      propertyKeys |-> <<"on">>,
      actionKeys |-> <<"SwitchOffTimer">>,
      eventKeys |-> <<"overheated">>,
      hrefPrefix |-> <<>>,
      uiHref |-> "null",
      registered |-> [actions |-> <<"SwitchOffTimer">>,
                      events |-> <<"overheated">>] ]

\* new HumiditySensor(): read-only property level = 43, nothing else
HumiditySensor ==
    [ props     |-> ("level" :> [value |-> "43", type |-> "number",
                                 readOnly |-> TRUE, atType |-> "LevelProperty",
                                 title |-> "Humidity", hrefPrefix |-> <<>>]),
      availableActions |-> <<>>,
      actions   |-> <<>>,
      availableEvents |-> <<>>,
      events    |-> <<>>,
      subscribers |-> {},
      propertyKeys |-> <<"level">>,
      actionKeys |-> <<>>,
      eventKeys |-> <<>>,
      hrefPrefix |-> <<>>,
      uiHref |-> "null",
      registered |-> [actions |-> <<>>, events |-> <<>>] ]

\* The world the operations of a handler act on.
World == [things |-> things, inst |-> inst, count |-> count, uuids |-> uuids,
          closed |-> closed, sent |-> NoSent]

ThingIdx == DOMAIN things

-----------------------------------------------------------------------------
(* Registry *)

\* SingleThing.getThing() ignores the id; MultipleThings.getThing(idx) yields
\* the thing at that index or null (-1 here).
GetThing(thingId) ==
    IF mode = "single" THEN 0
    ELSE IF thingId \in ThingIdx THEN thingId ELSE -1

-----------------------------------------------------------------------------
(* Subscriber fan-out (Thing.propertyNotify, actionNotify, eventNotify) *)

\* Mutant of SendAll: the exception of a failed send is not caught, so the
\* fan-out ends there.
SendAllAbortOnFailure(w, to, msg) ==
    IF to \cap w.closed # {} THEN w
    ELSE [w EXCEPT !.sent = [ws \in Handles |->
                               IF ws \in to THEN Append(w.sent[ws], msg)
                               ELSE w.sent[ws]]]

\* subscriber.send(message) for every subscriber of the set `to`, each in its
\* own try/catch: the send of a closed connection throws and is swallowed.
SendAll(w, to, msg) ==
    [w EXCEPT !.sent = [ws \in Handles |->
                          IF ws \in to /\ ws \notin w.closed
                          THEN Append(w.sent[ws], msg)
                          ELSE w.sent[ws]]]

Message(type, t, key, val, ref) ==
    [messageType |-> type, thing |-> t, key |-> key, val |-> val, ref |-> ref]

PropertyNotify(w, t, name) ==
    SendAll(w, w.things[t].subscribers,
            Message("propertyStatus", t, name, w.things[t].props[name].value, 0))

\* Whether the action h is in a list of its thing
Listed(w, h) ==
    \E n \in DOMAIN w.things[w.inst[h].thing].actions :
        \E i \in 1..Len(w.things[w.inst[h].thing].actions[n]) :
            w.things[w.inst[h].thing].actions[n][i] = h

\* data: action.asActionDescription(), i.e. {[action.name]: {status, ...}}.
\* `listed` is no part of the message: it is what a subscriber finds when it
\* looks the action up in its thing while send() runs.
ActionNotify(w, t, h) ==
    SendAll(w, w.things[t].subscribers,
            Message("actionStatus", t, w.inst[h].name, w.inst[h].status, h)
            @@ [listed |-> Listed(w, h)])

\* Mutant of EventNotify: the message goes to the Thing-wide subscribers.
EventNotifyThingWide(w, t, event) ==
    IF event.name \notin DOMAIN w.things[t].availableEvents THEN w
    ELSE SendAll(w, w.things[t].subscribers,
                 Message("event", t, event.name, event.data, 0))

EventNotify(w, t, event) ==
    IF event.name \notin DOMAIN w.things[t].availableEvents THEN w
    ELSE SendAll(w, w.things[t].availableEvents[event.name].subscribers,
                 Message("event", t, event.name, event.data, 0))

-----------------------------------------------------------------------------
(* Property (lib/property.js is not part of the sources at hand) *)

\* Property.validate: a read-only property and a value outside the declared
\* type are rejected.
PropertyAccepts(prop, v) == ~prop.readOnly /\ Validate(prop.type, v)

\* Property.setValue: rejects by throwing; otherwise stores the value and
\* notifies the Thing's subscribers.
PropertySetValue(w, t, name, v) ==
    IF ~PropertyAccepts(w.things[t].props[name], v)
    THEN [w |-> w, threw |-> TRUE]
    ELSE [w |-> PropertyNotify(
                  [w EXCEPT !.things[t].props[name].value = v], t, name),
          threw |-> FALSE]

-----------------------------------------------------------------------------
(* Thing: properties *)

HasProperty(w, t, name) == name \in DOMAIN w.things[t].props

\* Thing.getProperty: the value, or null when there is no such property
GetProperty(w, t, name) ==
    IF HasProperty(w, t, name) THEN w.things[t].props[name].value ELSE "null"

\* Mutant of GetProperties: the Property object's metadata is read where its
\* value is meant.
GetPropertiesNoValue(w, t) ==
    [n \in DOMAIN w.things[t].props |-> w.things[t].props[n].type]

\* Thing.getProperties: name -> value
GetProperties(w, t) ==
    [n \in DOMAIN w.things[t].props |-> w.things[t].props[n].value]

\* Mutant of SetProperty: the guard is inverted, so a known property is never
\* set.
SetPropertyGuardInverted(w, t, name, v) ==
    IF HasProperty(w, t, name) THEN [w |-> w, threw |-> FALSE]
    ELSE [w |-> w, threw |-> FALSE]

\* Thing.setProperty: silently nothing for an unknown name; the exception of
\* Property.setValue propagates.
SetProperty(w, t, name, v) ==
    IF ~HasProperty(w, t, name) THEN [w |-> w, threw |-> FALSE]
    ELSE PropertySetValue(w, t, name, v)

-----------------------------------------------------------------------------
(* Thing: events *)

\* Mutant of AddEvent: an event of an unregistered name is dropped.
AddEventIfRegistered(w, t, event) ==
    IF event.name \notin DOMAIN w.things[t].availableEvents THEN w
    ELSE EventNotify([w EXCEPT !.things[t].events = Append(@, event)], t, event)

\* Thing.addEvent
AddEvent(w, t, event) ==
    EventNotify([w EXCEPT !.things[t].events = Append(@, event)], t, event)

\* Thing.addAvailableEvent: a fresh entry, with an empty subscriber set
AddAvailableEvent(w, t, name) ==
    [w EXCEPT
       !.things[t].availableEvents =
           (name :> [subscribers |-> {}, links |-> <<>>]) @@ @,
       !.things[t].eventKeys = SetKey(@, name),
       !.things[t].registered.events = Registered(@, name)]

\* Thing.addEventSubscriber
AddEventSubscriber(w, t, name, ws) ==
    IF name \in DOMAIN w.things[t].availableEvents
    THEN [w EXCEPT !.things[t].availableEvents[name].subscribers = @ \cup {ws}]
    ELSE w

\* Thing.removeEventSubscriber
RemoveEventSubscriber(w, t, name, ws) ==
    IF /\ name \in DOMAIN w.things[t].availableEvents
       /\ ws \in w.things[t].availableEvents[name].subscribers
    THEN [w EXCEPT !.things[t].availableEvents[name].subscribers = @ \ {ws}]
    ELSE w

\* Mutant of RemoveSubscriber: the handle stays in the events' sets.
RemoveSubscriberThingWideOnly(w, t, ws) ==
    [w EXCEPT !.things[t].subscribers = @ \ {ws}]

\* Thing.removeSubscriber: off the Thing-wide set and off every event's set
RemoveSubscriber(w, t, ws) ==
    [w EXCEPT
       !.things[t].subscribers = @ \ {ws},
       !.things[t].availableEvents =
           [n \in DOMAIN @ |-> [@[n] EXCEPT !.subscribers = @ \ {ws}]]]

\* Thing.getEventDescriptions
RECURSIVE FilterName(_, _)
FilterName(s, name) ==
    IF s = <<>> THEN <<>>
    ELSE IF Head(s).name = name THEN <<Head(s)>> \o FilterName(Tail(s), name)
    ELSE FilterName(Tail(s), name)

\* The records of a log, the newest first
RECURSIVE Reversed(_)
Reversed(s) == IF s = <<>> THEN <<>> ELSE Append(Reversed(Tail(s)), Head(s))

\* Mutant of GetEventDescriptions: the records come the newest first.
GetEventDescriptionsNewestFirst(w, t, eventName) ==
    IF eventName = "" THEN Reversed(w.things[t].events)
    ELSE Reversed(FilterName(w.things[t].events, eventName))

GetEventDescriptions(w, t, eventName) ==
    IF eventName = "" THEN w.things[t].events
    ELSE FilterName(w.things[t].events, eventName)

-----------------------------------------------------------------------------
(* Thing: actions *)

\* The first action of the list whose id === actionId, by position; 0 if none.
RECURSIVE IndexOfId(_, _, _, _)
IndexOfId(w, list, actionId, i) ==
    IF i > Len(list) THEN 0
    ELSE IF w.inst[list[i]].id = actionId THEN i
    ELSE IndexOfId(w, list, actionId, i + 1)

\* Mutant of GetAction: the id is not compared, the first action of the list
\* is returned.
GetActionAnyId(w, t, actionName, actionId) ==
    IF actionName \notin DOMAIN w.things[t].actions THEN 0
    ELSE LET list == w.things[t].actions[actionName]
         IN IF list = <<>> THEN 0 ELSE list[1]

\* Thing.getAction: the action's handle, or null (0)
GetAction(w, t, actionName, actionId) ==
    IF actionName \notin DOMAIN w.things[t].actions THEN 0
    ELSE LET list == w.things[t].actions[actionName]
             i == IndexOfId(w, list, actionId, 1)
         IN IF i = 0 THEN 0 ELSE list[i]

\* The lists of the names `keys`, one after the other
RECURSIVE AllActions(_, _, _)
AllActions(w, t, keys) ==
    IF keys = <<>> THEN <<>>
    ELSE w.things[t].actions[Head(keys)] \o AllActions(w, t, Tail(keys))

\* Thing.getActionDescriptions(actionName): the handles listed; without a
\* name (""), those of every list in the key order of this.actions.
GetActionDescriptions(w, t, actionName) ==
    IF actionName = "" THEN AllActions(w, t, w.things[t].actionKeys)
    ELSE IF actionName \in DOMAIN w.things[t].actions
    THEN w.things[t].actions[actionName] ELSE <<>>

\* Mutant of NewAction: the counter is read but not advanced past, every
\* TestTimerAction takes the id 0.
NewActionSameId(w, class, t, input) ==
    [ id     |-> IF class = "TestTimerAction" THEN NumId(0)
                 ELSE StrId(UuidBase + w.uuids),
      class  |-> class,
      name   |-> IF class = "TestTimerAction" THEN "test" ELSE "fade",
      thing  |-> t,
      input  |-> input,
      status |-> "created",
      timeCompleted |-> FALSE,
      timer  |-> "none",
      cancelled |-> FALSE,
      hrefPrefix |-> <<>> ]

\* new TestTimerAction(thing, input): super(TestTimerAction.count++, thing,
\* 'test', input); new FadeAction(thing, input): super(uuidv4(), thing,
\* 'fade', input).  The object starts in status created with no timer.
NewAction(w, class, t, input) ==
    [ id     |-> IF class = "TestTimerAction" THEN NumId(w.count)
                 ELSE StrId(UuidBase + w.uuids),
      class  |-> class,
      name   |-> IF class = "TestTimerAction" THEN "test" ELSE "fade",
      thing  |-> t,
      input  |-> input,
      status |-> "created",
      timeCompleted |-> FALSE,
      timer  |-> "none",
      cancelled |-> FALSE,
      hrefPrefix |-> <<>> ]

\* Mutant of PerformAction: the input is not validated.
PerformActionUnvalidated(w, t, actionName, input0) ==
    LET input == OrNull(input0) IN
    IF actionName \notin DOMAIN w.things[t].availableActions
    THEN [w |-> w, ret |-> 0]
    ELSE
    LET actionType == w.things[t].availableActions[actionName]
        h  == Len(w.inst) + 1
        w1 == [w EXCEPT
                 !.inst  = Append(@, [NewAction(w, actionType.class, t, input)
                                        EXCEPT !.hrefPrefix = w.things[t].hrefPrefix]),
                 !.count = IF actionType.class = "TestTimerAction"
                           THEN @ + 1 ELSE @,
                 !.uuids = IF actionType.class = "TestTimerAction"
                           THEN @ ELSE @ + 1]
        w2 == ActionNotify(w1, t, h)
    IN [w |-> [w2 EXCEPT !.things[t].actions[actionName] = Append(@, h)],
        ret |-> h]

\* Mutant of PerformAction: the action is handed back already pending.
PerformActionPending(w, t, actionName, input0) ==
    LET input == OrNull(input0) IN
    IF actionName \notin DOMAIN w.things[t].availableActions
    THEN [w |-> w, ret |-> 0]
    ELSE
    LET actionType == w.things[t].availableActions[actionName] IN
    IF actionType.hasInput /\ ~Validate(actionType.input, input)
    THEN [w |-> w, ret |-> 0]
    ELSE
    LET h  == Len(w.inst) + 1
        w1 == [w EXCEPT
                 !.inst  = Append(@, [NewAction(w, actionType.class, t, input)
                                        EXCEPT !.hrefPrefix = w.things[t].hrefPrefix,
                                               !.status = "pending"]),
                 !.count = IF actionType.class = "TestTimerAction"
                           THEN @ + 1 ELSE @,
                 !.uuids = IF actionType.class = "TestTimerAction"
                           THEN @ ELSE @ + 1]
        w2 == ActionNotify(w1, t, h)
    IN [w |-> [w2 EXCEPT !.things[t].actions[actionName] = Append(@, h)],
        ret |-> h]

\* Mutant of PerformAction: the action is put in its list before the
\* subscribers are told.
PerformActionAppendFirst(w, t, actionName, input0) ==
    LET input == OrNull(input0) IN
    IF actionName \notin DOMAIN w.things[t].availableActions
    THEN [w |-> w, ret |-> 0]
    ELSE
    LET actionType == w.things[t].availableActions[actionName] IN
    IF actionType.hasInput /\ ~Validate(actionType.input, input)
    THEN [w |-> w, ret |-> 0]
    ELSE
    LET h  == Len(w.inst) + 1
        w1 == [w EXCEPT
                 !.inst  = Append(@, [NewAction(w, actionType.class, t, input)
                                        EXCEPT !.hrefPrefix = w.things[t].hrefPrefix]),
                 !.count = IF actionType.class = "TestTimerAction"
                           THEN @ + 1 ELSE @,
                 !.uuids = IF actionType.class = "TestTimerAction"
                           THEN @ ELSE @ + 1]
        w2 == [w1 EXCEPT !.things[t].actions[actionName] = Append(@, h)]
    IN [w |-> ActionNotify(w2, t, h), ret |-> h]

\* Thing.performAction: ret is the new action's handle, or 0 for undefined.
PerformAction(w, t, actionName, input0) ==
    LET input == OrNull(input0) IN
    IF actionName \notin DOMAIN w.things[t].availableActions
    THEN [w |-> w, ret |-> 0]
    ELSE
    LET actionType == w.things[t].availableActions[actionName] IN
    IF actionType.hasInput /\ ~Validate(actionType.input, input)
    THEN [w |-> w, ret |-> 0]
    ELSE
    LET h  == Len(w.inst) + 1
        w1 == [w EXCEPT
                 !.inst  = Append(@, [NewAction(w, actionType.class, t, input)
                                        EXCEPT !.hrefPrefix = w.things[t].hrefPrefix]),
                 !.count = IF actionType.class = "TestTimerAction"
                           THEN @ + 1 ELSE @,
                 !.uuids = IF actionType.class = "TestTimerAction"
                           THEN @ ELSE @ + 1]
        w2 == ActionNotify(w1, t, h)
    IN [w |-> [w2 EXCEPT !.things[t].actions[actionName] = Append(@, h)],
        ret |-> h]

\* Action.cancel (lib/action.js is not part of the sources at hand): the hook
\* a subclass overrides.  Neither TestTimerAction nor FadeAction overrides it
\* and neither keeps the handle of its timer, so the call only marks the
\* object.
Cancel(w, h) == [w EXCEPT !.inst[h].cancelled = TRUE]

RemoveAt(list, i) == SubSeq(list, 1, i - 1) \o SubSeq(list, i + 1, Len(list))

\* Mutant of RemoveAction: the action is cancelled but stays in the list.
RemoveActionNoSplice(w, t, actionName, actionId) ==
    LET h == GetAction(w, t, actionName, actionId) IN
    IF h = 0 THEN [w |-> w, ret |-> FALSE, cancelled |-> 0]
    ELSE [w |-> Cancel(w, h), ret |-> TRUE, cancelled |-> h]

\* Mutant of RemoveAction: the list is cut at the action found, the actions
\* behind it go with it.
RemoveActionTruncates(w, t, actionName, actionId) ==
    LET h == GetAction(w, t, actionName, actionId) IN
    IF h = 0 THEN [w |-> w, ret |-> FALSE, cancelled |-> 0]
    ELSE LET w1 == Cancel(w, h)
             list == w1.things[t].actions[actionName]
             i == IndexOfId(w1, list, actionId, 1)
         IN [w |-> [w1 EXCEPT !.things[t].actions[actionName] =
                                  SubSeq(list, 1, i - 1)],
             ret |-> TRUE, cancelled |-> h]

\* Thing.removeAction
RemoveAction(w, t, actionName, actionId) ==
    LET h == GetAction(w, t, actionName, actionId) IN
    IF h = 0 THEN [w |-> w, ret |-> FALSE, cancelled |-> 0]
    ELSE LET w1 == Cancel(w, h)
             list == w1.things[t].actions[actionName]
             i == IndexOfId(w1, list, actionId, 1)
         IN [w |-> [w1 EXCEPT !.things[t].actions[actionName] = RemoveAt(list, i)],
             ret |-> TRUE, cancelled |-> h]

\* Mutant of AddProperty: the property keeps the prefix it was built with.
AddPropertyNoPrefix(w, t, name, property) ==
    [w EXCEPT !.things[t].props = (name :> property) @@ @,
              !.things[t].propertyKeys = SetKey(@, name)]

\* Thing.addProperty: the property takes the thing's prefix and is entered
\* under its name.
AddProperty(w, t, name, property) ==
    [w EXCEPT !.things[t].props =
                  (name :> [property EXCEPT !.hrefPrefix = w.things[t].hrefPrefix])
                  @@ @,
              !.things[t].propertyKeys = SetKey(@, name)]

\* Thing.removeProperty(property): `delete this.properties[property.name]`
\* when the thing has a property of that name; the key leaves the key order.
RemoveProperty(w, t, name) ==
    IF ~HasProperty(w, t, name) THEN w
    ELSE [w EXCEPT !.things[t].props = [n \in DOMAIN @ \ {name} |-> @[n]],
                   !.things[t].propertyKeys = SelectSeq(@, LAMBDA k : k # name)]

\* Mutant of AddAvailableAction: the name enters the catalog but gets no list.
AddAvailableActionNoList(w, t, name, hasInput, schema, class) ==
    [w EXCEPT
       !.things[t].availableActions =
           (name :> [hasInput |-> hasInput, input |-> schema, class |-> class,
                     links |-> <<>>])
           @@ @,
       !.things[t].actionKeys = SetKey(@, name),
       !.things[t].registered.actions = Registered(@, name)]

\* Thing.addAvailableAction
AddAvailableAction(w, t, name, hasInput, schema, class) ==
    [w EXCEPT
       !.things[t].availableActions =
           (name :> [hasInput |-> hasInput, input |-> schema, class |-> class,
                     links |-> <<>>])
           @@ @,
       !.things[t].actions = (name :> <<>>) @@ @,
       !.things[t].actionKeys = SetKey(@, name),
       !.things[t].registered.actions = Registered(@, name)]

-----------------------------------------------------------------------------
(* Action execution *)

\* Action.finish (lib/action.js): status completed, timeCompleted recorded,
\* subscribers notified.
Finish(w, h) ==
    ActionNotify([w EXCEPT !.inst[h].status = "completed",
                           !.inst[h].timeCompleted = TRUE],
                 w.inst[h].thing, h)

\* Action.start (lib/action.js) followed by the subclass's performAction():
\* the status becomes pending and the promise executor runs.  The executor
\* evaluates this.input.duration, which throws for a null input: the promise
\* is rejected and no timer exists; otherwise the timer is armed.
Start(w, h) ==
    [w EXCEPT !.inst[h].status = "pending",
              !.inst[h].timer = IF w.inst[h].input = "null" THEN "rejected"
                                ELSE "armed"]

\* The reactions to a rejected promise run as microtasks once the current
\* handler has returned: the action finishes without having done its work.
RECURSIVE Microtasks(_, _)
Microtasks(w, hs) ==
    IF hs = <<>> THEN w
    ELSE LET h == Head(hs)
             w1 == IF w.inst[h].timer = "rejected" /\ w.inst[h].status = "pending"
                   THEN Finish(w, h) ELSE w
         IN Microtasks(w1, Tail(hs))

\* The setTimeout callback of TestTimerAction / FadeAction, then the promise's
\* resolution: setProperty, addEvent(new OverheatedEvent(thing, 102)),
\* resolve().  An exception of setProperty ends the callback at once.
TimerCallback(w, h) ==
    LET a  == w.inst[h]
        t  == a.thing
        r  == IF a.class = "TestTimerAction"
              THEN SetProperty(w, t, "on", "false")
              ELSE SetProperty(w, t, "brightness", BrightnessOf(a.input))
    IN IF r.threw
       THEN [r.w EXCEPT !.inst[h].timer = "fired"]
       ELSE LET w1 == AddEvent(r.w, t, [name |-> "overheated", data |-> "102"])
            IN Finish([w1 EXCEPT !.inst[h].timer = "fired"], h)

-----------------------------------------------------------------------------
(* Requests and answers *)

\* A request body: a JSON object (map), the JSON text null, or text that
\* JSON.parse rejects.
ObjectBody(map) == [kind |-> "object", map |-> map]
NullBody        == [kind |-> "null", map |-> <<>>]
MalformedBody   == [kind |-> "malformed", map |-> <<>>]
NoBody          == [kind |-> "none", map |-> <<>>]

\* body.hasOwnProperty(key) of a parsed object body
HasOwnProperty(body, key) == key \in DOMAIN body.map

\* The record of an operation: the request (op, thingId, name, id, body), the
\* answer (status, val, created, ret), the messages sent to the subscribers
\* and what the operation met: the value the property had before (prior), the
\* status of the action cancel() was called on (cancelStatus), whether a
\* timer's work took effect after its action was cancelled (late); host is
\* req.host, the Uri-Host option of the request.
Answer(op, thingId, name, body) ==
    [op |-> op, thingId |-> thingId, name |-> name, id |-> StrId(0),
     body |-> body, status |-> "", val |-> "", prior |-> "",
     created |-> <<>>, ret |-> 0, sent |-> NoSent,
     cancelStatus |-> "", late |-> FALSE, listed |-> <<>>, host |-> "",
     response |-> <<>>]

NotFound(w, a)   == [w |-> w, a |-> [a EXCEPT !.status = "not-found"]]
BadRequest(w, a) == [w |-> w, a |-> [a EXCEPT !.status = "bad-request"]]
\* an exception leaves the handler: the handler writes no response
Threw(w, a)      == [w |-> w, a |-> [a EXCEPT !.status = "threw"]]

-----------------------------------------------------------------------------
(* CoapPropertiesHandler, CoapPropertyHandler *)

PropertiesHandlerGet(w, thingId) ==
    LET a == Answer("propertiesGET", thingId, "", NoBody)
        t == GetThing(thingId)
    IN IF t = -1 THEN NotFound(w, a)
       ELSE [w |-> w, a |-> [a EXCEPT !.status = "ok",
                                      !.body = ObjectBody(GetProperties(w, t))]]

PropertyHandlerGet(w, thingId, propertyName) ==
    LET a == Answer("propertyGET", thingId, propertyName, NoBody)
        t == GetThing(thingId)
    IN IF t = -1 THEN NotFound(w, a)
       ELSE IF HasProperty(w, t, propertyName)
       THEN [w |-> w, a |-> [a EXCEPT !.status = "ok",
                                      !.val = GetProperty(w, t, propertyName)]]
       ELSE NotFound(w, a)

\* Mutant of PropertyHandlerPut: the property is looked up before the body is
\* checked for the key.
PropertyHandlerPutLookupFirst(w, thingId, propertyName, body) ==
    LET a == Answer("propertyPUT", thingId, propertyName, body)
        t == GetThing(thingId)
    IN IF t = -1 THEN NotFound(w, a)
       ELSE IF body.kind \in {"malformed", "null"} THEN Threw(w, a)
       ELSE IF ~HasProperty(w, t, propertyName) THEN NotFound(w, a)
       ELSE IF ~HasOwnProperty(body, propertyName) THEN BadRequest(w, a)
       ELSE LET r == SetProperty(w, t, propertyName, body.map[propertyName])
            IN IF r.threw THEN BadRequest(r.w, a)
               ELSE [w |-> r.w,
                     a |-> [a EXCEPT !.status = "ok",
                                     !.val = GetProperty(r.w, t, propertyName)]]

PropertyHandlerPut(w, thingId, propertyName, body) ==
    LET a == Answer("propertyPUT", thingId, propertyName, body)
        t == GetThing(thingId)
    IN IF t = -1 THEN NotFound(w, a)
       \* helpers.getBody: JSON.parse throws on malformed text
       ELSE IF body.kind = "malformed" THEN Threw(w, a)
       \* body.hasOwnProperty on null throws a TypeError
       ELSE IF body.kind = "null" THEN Threw(w, a)
       ELSE IF ~HasOwnProperty(body, propertyName) THEN BadRequest(w, a)
       ELSE IF HasProperty(w, t, propertyName)
       THEN LET r == SetProperty(w, t, propertyName, body.map[propertyName])
            IN IF r.threw THEN BadRequest(r.w, a)
               ELSE [w |-> r.w,
                     a |-> [a EXCEPT !.status = "ok",
                                     !.val = GetProperty(r.w, t, propertyName)]]
       ELSE NotFound(w, a)

-----------------------------------------------------------------------------
(* CoapActionsHandler, CoapActionHandler, CoapActionIDHandler *)

\* A body entry, body[actionName]: an object with or without the key input,
\* or null.
Entry(name, kind, hasInput, input) ==
    [name |-> name, kind |-> kind, hasInput |-> hasInput, input |-> input]

\* Action.asActionDescription (lib/action.js): {[this.name]: {href, status,
\* input, ...}}, the values the action has when the call is made.
AsActionDescription(w, h) ==
    w.inst[h].name :> [ref |-> h, status |-> w.inst[h].status,
                        input |-> w.inst[h].input]

\* The loop over the body's entries, in the body's key order.  `only` is the
\* action name of the path for the action-by-name POST and "" for the actions
\* POST.  The result carries the handles created, the response object and
\* whether an exception ended the loop.  Object.assign(response, description)
\* sets the description's key, over an entry of that key if there is one.
RECURSIVE PostLoop(_, _, _, _, _, _)
PostLoop(w, t, entries, only, created, response) ==
    IF entries = <<>>
    THEN [w |-> w, created |-> created, response |-> response, threw |-> FALSE]
    ELSE
    LET e == Head(entries) IN
    IF only # "" /\ e.name # only
    THEN PostLoop(w, t, Tail(entries), only, created, response)
    \* body[name].hasOwnProperty on null throws a TypeError
    ELSE IF e.kind = "null"
    THEN [w |-> w, created |-> created, response |-> response, threw |-> TRUE]
    ELSE
    LET input == IF e.hasInput THEN e.input ELSE "null"
        r == PerformAction(w, t, e.name, input)
    IN IF r.ret = 0
       THEN PostLoop(r.w, t, Tail(entries), only, created, response)
       ELSE PostLoop(Start(r.w, r.ret), t, Tail(entries), only,
                     Append(created, r.ret),
                     AsActionDescription(r.w, r.ret) @@ response)

PostAnswer(w, a, t, entries, only) ==
    LET r  == PostLoop(w, t, entries, only, <<>>, <<>>)
        w1 == Microtasks(r.w, r.created)
    IN IF r.threw THEN Threw(w1, [a EXCEPT !.created = r.created])
       ELSE [w |-> w1, a |-> [a EXCEPT !.status = "created",
                                       !.created = r.created,
                                       !.response = r.response]]

\* Mutant of ActionsHandlerPost: the body is parsed before the Thing is
\* resolved.
ActionsHandlerPostParseFirst(w, thingId, body) ==
    LET a == Answer("actionsPOST", thingId, "", body)
        t == GetThing(thingId)
    IN IF body.kind = "malformed" THEN Threw(w, a)
       ELSE IF t = -1 THEN NotFound(w, a)
       ELSE PostAnswer(w, a, t, body.map, "")

ActionsHandlerPost(w, thingId, body) ==
    LET a == Answer("actionsPOST", thingId, "", body)
        t == GetThing(thingId)
    IN IF t = -1 THEN NotFound(w, a)
       ELSE IF body.kind = "malformed" THEN Threw(w, a)
       \* `for (const actionName in null)` runs no iteration
       ELSE PostAnswer(w, a, t, body.map, "")

\* Mutant of ActionHandlerPost: the entries are not filtered by the path's
\* action name.
ActionHandlerPostUnscoped(w, thingId, actionName, body) ==
    LET a == Answer("actionPOST", thingId, actionName, body)
        t == GetThing(thingId)
    IN IF t = -1 THEN NotFound(w, a)
       ELSE IF body.kind = "malformed" THEN Threw(w, a)
       ELSE PostAnswer(w, a, t, body.map, "")

ActionHandlerPost(w, thingId, actionName, body) ==
    LET a == Answer("actionPOST", thingId, actionName, body)
        t == GetThing(thingId)
    IN IF t = -1 THEN NotFound(w, a)
       ELSE IF body.kind = "malformed" THEN Threw(w, a)
       ELSE PostAnswer(w, a, t, body.map, actionName)

ActionIDHandlerDelete(w, thingId, actionName, actionId) ==
    LET a == [Answer("actionDELETE", thingId, actionName, NoBody)
                EXCEPT !.id = actionId]
        t == GetThing(thingId)
    IN IF t = -1 THEN NotFound(w, a)
       ELSE LET r == RemoveAction(w, t, actionName, actionId)
            IN IF r.ret
               THEN [w |-> r.w,
                     a |-> [a EXCEPT !.status = "no-content",
                                     !.ret = r.cancelled,
                                     !.cancelStatus = w.inst[r.cancelled].status]]
               ELSE NotFound(r.w, a)

-----------------------------------------------------------------------------
(* Description renderer and link-format encoder *)

\* basePath.replace(/\/$/, ''): one '/' at the end is removed
StripSlash(path) ==
    IF path # <<>> /\ path[Len(path)] = "/"
    THEN SubSeq(path, 1, Len(path) - 1) ELSE path

\* The prefix the server's constructor hands to thing.setHrefPrefix: basePath
\* for a single thing, `${this.basePath}/${i}` for the i-th of several.
HrefPrefix(t) == IF mode = "single" THEN server.basePath
                 ELSE server.basePath \o <<"/", ToString(t)>>

\* `${this.hrefPrefix}/${group}/${name}` and `${this.hrefPrefix}/${group}`
\* (name = ""), kept as the prefix, the group and the name.
Href(prefix, group, name) == <<prefix, group, name>>

\* Thing.setUiHref
SetUiHref(w, t, href) == [w EXCEPT !.things[t].uiHref = href]

\* Thing.getHref
GetHref(w, t) == IF w.things[t].hrefPrefix # <<>> THEN w.things[t].hrefPrefix
                 ELSE <<"/">>

Link(rel, href) == [rel |-> rel, href |-> href]

\* Property.asPropertyDescription (lib/property.js): a copy of the metadata
\* with the link of the property added, built on the property's own prefix.
AsPropertyDescription(w, t, name) ==
    [name |-> name, atType |-> w.things[t].props[name].atType,
     title |-> w.things[t].props[name].title,
     links |-> <<Link("property",
                      Href(w.things[t].props[name].hrefPrefix, "properties", name))>>]

\* Thing.asThingDescription.  The metadata objects of the available actions
\* and events are entered in the description as they are, and their links
\* are assigned on them: the Thing's state changes (w).  The alternate link
\* is pushed when uiHref is truthy.
AsThingDescription(w, t) ==
    LET th == w.things[t]
        w1 == [w EXCEPT
                 !.things[t].availableActions =
                     [n \in DOMAIN @ |->
                        [@[n] EXCEPT !.links =
                           <<Link("action", Href(th.hrefPrefix, "actions", n))>>]],
                 !.things[t].availableEvents =
                     [n \in DOMAIN @ |->
                        [@[n] EXCEPT !.links =
                           <<Link("event", Href(th.hrefPrefix, "events", n))>>]]]
        th1 == w1.things[t]
    IN [w |-> w1,
        d |-> [ thing |-> t,
                properties |-> [i \in 1..Len(th.propertyKeys) |->
                                  AsPropertyDescription(w, t, th.propertyKeys[i])],
                actions |-> [i \in 1..Len(th.actionKeys) |->
                               [name |-> th.actionKeys[i],
                                links |-> th1.availableActions[th.actionKeys[i]].links]],
                events |-> [i \in 1..Len(th.eventKeys) |->
                              [name |-> th.eventKeys[i],
                               links |-> th1.availableEvents[th.eventKeys[i]].links]],
                links |-> << Link("properties", Href(th.hrefPrefix, "properties", "")),
                             Link("actions", Href(th.hrefPrefix, "actions", "")),
                             Link("events", Href(th.hrefPrefix, "events", "")) >>
                         \o (IF ~Falsy(th.uiHref)
                             THEN <<Link("alternate", <<th.uiHref>>)>> ELSE <<>>) ]]

\* Mutant of GetDescription: href is entered for every thing.
GetDescriptionAlwaysHref(w, t, host) ==
    LET r == AsThingDescription(w, t)
    IN [w |-> r.w,
        d |-> [href |-> GetHref(w, t),
               base |-> <<"coap", "://", host>> \o GetHref(w, t),
               securityDefinitions |-> [nosec_sc |-> [scheme |-> "nosec"]],
               security |-> "nosec_sc"] @@ r.d]

\* helpers.getDescription(req, thing), host being req.host: href is entered
\* when the thing's href is not '/'; base and the security declaration are
\* entered always.
GetDescription(w, t, host) ==
    LET r == AsThingDescription(w, t)
        d == [base |-> <<"coap", "://", host>> \o GetHref(w, t),
              securityDefinitions |-> [nosec_sc |-> [scheme |-> "nosec"]],
              security |-> "nosec_sc"] @@ r.d
    IN [w |-> r.w,
        d |-> IF GetHref(w, t) # <<"/">>
              THEN [href |-> GetHref(w, t)] @@ d
              ELSE d]

\* One entry of the link-format payload: `<href>`, `<href>;rt="rt";ct=50` or
\* `<href>;rt="rt";ct=50;title="title"`.
CoreLink(href, attrs) == [href |-> href, attrs |-> attrs]

\* The entries of the links of one resource of the group rgKey
RECURSIVE ResourceLinks(_, _, _)
ResourceLinks(rgKey, resource, links) ==
    IF links = <<>> THEN <<>>
    ELSE <<IF rgKey = "properties"
           THEN CoreLink(Head(links).href,
                         <<"rt", resource.atType, "ct=50", "title", resource.title>>)
           ELSE CoreLink(Head(links).href, <<"rt", Head(links).rel, "ct=50">>)>>
         \o ResourceLinks(rgKey, resource, Tail(links))

\* The entries of a resource group, resource by resource in key order; a
\* resource without `links` is passed over.
RECURSIVE GroupLinks(_, _)
GroupLinks(rgKey, resources) ==
    IF resources = <<>> THEN <<>>
    ELSE (IF "links" \in DOMAIN Head(resources)
          THEN ResourceLinks(rgKey, Head(resources), Head(resources).links)
          ELSE <<>>)
         \o GroupLinks(rgKey, Tail(resources))

\* The entries of the key rgKey of the description
GroupEntries(d, rgKey) ==
    IF rgKey \notin DOMAIN d THEN <<>>
    ELSE IF rgKey = "href" THEN <<CoreLink(d.href, <<>>)>>
    ELSE IF rgKey = "links"
    THEN [i \in 1..Len(d.links) |->
            CoreLink(d.links[i].href, <<"rt", d.links[i].rel, "ct=50">>)]
    ELSE GroupLinks(rgKey, d[rgKey])

\* Mutant of GetCoreLinkFormat: the actions are entered before the properties.
GetCoreLinkFormatActionsFirst(d) ==
    GroupEntries(d, "href") \o GroupEntries(d, "links")
    \o GroupEntries(d, "actions") \o GroupEntries(d, "properties")
    \o GroupEntries(d, "events")

\* helpers.getCoreLinkFormat: the keys href, links, properties, actions,
\* events in this order, each when the description has it.
GetCoreLinkFormat(d) ==
    GroupEntries(d, "href") \o GroupEntries(d, "links")
    \o GroupEntries(d, "properties") \o GroupEntries(d, "actions")
    \o GroupEntries(d, "events")

\* the two entries the handlers add: `</>` and `</.well-known/core>`
Trailer == <<CoreLink(<<"/">>, <<>>), CoreLink(<<"/.well-known/core">>, <<>>)>>

-----------------------------------------------------------------------------
(* CoapThingsHandler, CoapThingHandler, CoapCoresHandler, CoapCoreHandler *)

\* The descriptions of the things ts, one after the other
RECURSIVE Descriptions(_, _, _, _)
Descriptions(w, ts, ds, host) ==
    IF ts = <<>> THEN [w |-> w, ds |-> ds]
    ELSE LET r == GetDescription(w, Head(ts), host)
         IN Descriptions(r.w, Tail(ts), Append(ds, r.d), host)

\* things.getThings(), in the registry's order
GetThings == [i \in 1..Cardinality(ThingIdx) |-> i - 1]

\* The encodings joined in the reverse of the registry's order
RECURSIVE CoresReversed(_)
CoresReversed(ds) ==
    IF ds = <<>> THEN <<>> ELSE CoresReversed(Tail(ds)) \o GetCoreLinkFormat(Head(ds))

\* cores.join(',') of the encodings: a link-format text is kept as the
\* sequence of its entries, and every encoding has entries (the three links
\* of a description at least).
RECURSIVE Cores(_)
Cores(ds) ==
    IF ds = <<>> THEN <<>> ELSE GetCoreLinkFormat(Head(ds)) \o Cores(Tail(ds))

\* Mutant of ThingsHandlerGet: the handler looks the thing of the request up,
\* as CoapThingHandler does, on a route that has no :thingId.
ThingsHandlerGetByParam(w, host) ==
    LET a == [Answer("thingsGET", 0, "", NoBody) EXCEPT !.host = host]
        t == GetThing(-1)
    IN IF t = -1 THEN NotFound(w, a)
       ELSE LET r == GetDescription(w, t, host)
            IN [w |-> r.w, a |-> [a EXCEPT !.status = "ok", !.listed = <<r.d>>]]

ThingsHandlerGet(w, host) ==
    LET a == [Answer("thingsGET", 0, "", NoBody) EXCEPT !.host = host]
        r == Descriptions(w, GetThings, <<>>, host)
    IN [w |-> r.w, a |-> [a EXCEPT !.status = "ok", !.listed = r.ds]]

\* Mutant of ThingHandlerGet: an id that does not resolve is answered with
\* the first thing.
ThingHandlerGetDefaultFirst(w, thingId, host) ==
    LET a == [Answer("thingGET", thingId, "", NoBody) EXCEPT !.host = host]
        t == IF GetThing(thingId) = -1 THEN 0 ELSE GetThing(thingId)
        r == GetDescription(w, t, host)
    IN [w |-> r.w, a |-> [a EXCEPT !.status = "ok", !.listed = <<r.d>>]]

ThingHandlerGet(w, thingId, host) ==
    LET a == [Answer("thingGET", thingId, "", NoBody) EXCEPT !.host = host]
        t == GetThing(thingId)
    IN IF t = -1 THEN NotFound(w, a)
       ELSE LET r == GetDescription(w, t, host)
            IN [w |-> r.w, a |-> [a EXCEPT !.status = "ok", !.listed = <<r.d>>]]

\* Mutant of CoresHandlerGet: the encodings are joined in the reverse of the
\* registry's order.
CoresHandlerGetReversed(w, host) ==
    LET a == [Answer("coresGET", 0, "", NoBody) EXCEPT !.host = host]
        r == Descriptions(w, GetThings, <<>>, host)
    IN [w |-> r.w,
        a |-> [a EXCEPT !.status = "ok", !.listed = CoresReversed(r.ds) \o Trailer]]

CoresHandlerGet(w, host) ==
    LET a == [Answer("coresGET", 0, "", NoBody) EXCEPT !.host = host]
        r == Descriptions(w, GetThings, <<>>, host)
    IN [w |-> r.w,
        a |-> [a EXCEPT !.status = "ok", !.listed = Cores(r.ds) \o Trailer]]

CoreHandlerGet(w, thingId, host) ==
    LET a == [Answer("coreGET", thingId, "", NoBody) EXCEPT !.host = host]
        t == GetThing(thingId)
    IN IF t = -1 THEN NotFound(w, a)
       ELSE LET r == GetDescription(w, t, host)
            IN [w |-> r.w,
                a |-> [a EXCEPT !.status = "ok",
                                !.listed = GetCoreLinkFormat(r.d) \o Trailer]]

-----------------------------------------------------------------------------
(* The GET handlers of actions and events, CoapActionIDHandler.put *)

ActionsHandlerGet(w, thingId) ==
    LET a == Answer("actionsGET", thingId, "", NoBody)
        t == GetThing(thingId)
    IN IF t = -1 THEN NotFound(w, a)
       ELSE [w |-> w, a |-> [a EXCEPT !.status = "ok",
                                      !.listed = GetActionDescriptions(w, t, "")]]

ActionHandlerGet(w, thingId, actionName) ==
    LET a == Answer("actionGET", thingId, actionName, NoBody)
        t == GetThing(thingId)
    IN IF t = -1 THEN NotFound(w, a)
       ELSE [w |-> w,
             a |-> [a EXCEPT !.status = "ok",
                             !.listed = GetActionDescriptions(w, t, actionName)]]

ActionIDHandlerGet(w, thingId, actionName, actionId) ==
    LET a == [Answer("actionIdGET", thingId, actionName, NoBody)
                EXCEPT !.id = actionId]
        t == GetThing(thingId)
    IN IF t = -1 THEN NotFound(w, a)
       ELSE LET h == GetAction(w, t, actionName, actionId)
            IN IF h = 0 THEN NotFound(w, a)
               ELSE [w |-> w, a |-> [a EXCEPT !.status = "ok", !.ret = h,
                                              !.val = w.inst[h].status]]

\* "not yet defined": status 200 and no payload
ActionIDHandlerPut(w, thingId, actionName, actionId, body) ==
    LET a == [Answer("actionIdPUT", thingId, actionName, body)
                EXCEPT !.id = actionId]
        t == GetThing(thingId)
    IN IF t = -1 THEN NotFound(w, a)
       ELSE [w |-> w, a |-> [a EXCEPT !.status = "ok-empty"]]

EventsHandlerGet(w, thingId) ==
    LET a == Answer("eventsGET", thingId, "", NoBody)
        t == GetThing(thingId)
    IN IF t = -1 THEN NotFound(w, a)
       ELSE [w |-> w, a |-> [a EXCEPT !.status = "ok",
                                      !.listed = GetEventDescriptions(w, t, "")]]

EventHandlerGet(w, thingId, eventName) ==
    LET a == Answer("eventGET", thingId, eventName, NoBody)
        t == GetThing(thingId)
    IN IF t = -1 THEN NotFound(w, a)
       ELSE [w |-> w,
             a |-> [a EXCEPT !.status = "ok",
                             !.listed = GetEventDescriptions(w, t, eventName)]]

-----------------------------------------------------------------------------
(* Inputs *)

SOT == "SwitchOffTimer"

\* req.host of the description and discovery requests
Hosts == {"localhost", "mything.com"}

\* property PUT requests: <<thingId, propertyName, body>>
PutRequests ==
    { <<0, "on", ObjectBody("on" :> "false")>>,
      <<0, "on", ObjectBody("on" :> "true")>>,
      <<0, "on", ObjectBody("on" :> "0")>>,
      <<0, "on", ObjectBody("brightness" :> "5")>>,
      <<0, "on", NullBody>>,
      <<0, "on", MalformedBody>>,
      <<0, "brightness", ObjectBody("brightness" :> "5")>>,
      <<0, "brightness", ObjectBody("on" :> "true")>>,
      <<1, "level", ObjectBody("level" :> "5")>>,
      <<2, "on", ObjectBody("on" :> "false")>>,
      <<2, "on", MalformedBody>> }

\* property GET requests: <<thingId, propertyName>>
GetRequests ==
    { <<0, "on">>, <<0, "brightness">>, <<1, "level">>, <<1, "on">>, <<2, "on">> }

TimerOk     == Entry(SOT, "object", TRUE, "d1")
TimerBad    == Entry(SOT, "object", TRUE, "d0")
TimerNoIn   == Entry(SOT, "object", FALSE, "")
TimerNull   == Entry(SOT, "null", FALSE, "")
FadeOk      == Entry("fade", "object", TRUE, "b5d1")
CountZero   == Entry("count", "object", TRUE, "0")
CountFive   == Entry("count", "object", TRUE, "5")
ToggleNoIn  == Entry("toggle", "object", FALSE, "")
NopeOk      == Entry("nope", "object", TRUE, "d1")

\* bodies of the actions POST and the action-by-name POST
PostBodies ==
    { ObjectBody(<<TimerOk>>), ObjectBody(<<TimerBad>>),
      ObjectBody(<<TimerNoIn>>), ObjectBody(<<TimerNull>>),
      ObjectBody(<<NopeOk>>), ObjectBody(<<CountZero>>),
      ObjectBody(<<CountFive>>), ObjectBody(<<ToggleNoIn>>),
      ObjectBody(<<TimerOk, FadeOk>>), ObjectBody(<<FadeOk, TimerNull>>),
      ObjectBody(<<NopeOk, TimerOk>>),
      ObjectBody(<<>>), NullBody, MalformedBody }

\* actions POST requests: <<thingId, body>>
ActionsPostRequests ==
    {<<0, b>> : b \in PostBodies}
    \cup { <<1, ObjectBody(<<TimerOk>>)>>, <<2, ObjectBody(<<TimerOk>>)>>,
           <<2, MalformedBody>> }

\* action-by-name POST requests: <<thingId, actionName, body>>
ActionPostRequests ==
    { <<0, SOT, ObjectBody(<<TimerOk>>)>>,
      <<0, SOT, ObjectBody(<<TimerOk, FadeOk>>)>>,
      <<0, "fade", ObjectBody(<<TimerOk, FadeOk>>)>>,
      <<0, "fade", ObjectBody(<<FadeOk, TimerNull>>)>>,
      <<0, SOT, ObjectBody(<<FadeOk, TimerNull>>)>>,
      <<0, "nope", ObjectBody(<<NopeOk, TimerOk>>)>>,
      <<0, "count", ObjectBody(<<CountZero>>)>>,
      <<0, SOT, MalformedBody>>,
      <<2, SOT, MalformedBody>>,
      <<1, SOT, ObjectBody(<<TimerOk>>)>>,
      <<2, SOT, ObjectBody(<<TimerOk>>)>> }

\* Identifiers a caller may name: the numbers the counter has produced, their
\* decimal texts, and the uuid tokens.
NumIds  == {NumId(n) : n \in 0..(MaxInst - 1)}
NumTexts == {StrId(n) : n \in 0..(MaxInst - 1)}
UuidIds == {StrId(UuidBase + n) : n \in 0..(MaxInst - 1)}

\* action-instance GET and DELETE requests: <<thingId, actionName, actionId>>
DeleteRequests ==
    {<<0, n, id>> : n \in {SOT, "fade"}, id \in NumTexts \cup UuidIds}
    \cup { <<0, "nope", StrId(0)>>, <<1, SOT, StrId(0)>>,
           <<2, "fade", StrId(UuidBase)>> }

\* action GET requests: <<thingId, actionName>>
ActionGetRequests ==
    { <<0, SOT>>, <<0, "fade">>, <<0, "nope">>, <<2, SOT>> }

\* action-instance PUT requests: <<thingId, actionName, actionId, body>>
ActionIdPutRequests ==
    { <<0, SOT, StrId(0), ObjectBody(<<>>)>>, <<0, SOT, StrId(0), MalformedBody>>,
      <<2, SOT, StrId(0), MalformedBody>> }

\* event GET requests: <<thingId, eventName>>
EventGetRequests ==
    { <<0, "overheated">>, <<0, "other">>, <<0, "nope">>, <<1, "overheated">>,
      <<2, "overheated">> }

\* thing.setProperty calls: <<thing, name, value>>
SetPropertyCalls ==
    { <<0, "on", "true">>, <<0, "on", "false">>, <<0, "on", "0">>,
      <<0, "brightness", "5">>, <<1, "level", "5">> }

\* thing.removeProperty calls: <<thing, property.name>>
RemovePropertyCalls ==
    { <<0, "on">>, <<0, "brightness">> }

\* thing.performAction calls: <<thing, name, input>>
PerformActionCalls ==
    { <<0, SOT, "d1">>, <<0, SOT, "d0">>, <<0, SOT, "null">>,
      <<0, "nope", "d1">>, <<0, "count", "0">>, <<0, "count", "5">>,
      <<0, "count", "false">>, <<0, "toggle", "">>, <<0, "toggle", "d1">>,
      <<0, "fade", "b5d1">>, <<0, "fade", "d1">>, <<1, SOT, "d1">> }

\* thing.removeAction calls: <<thing, name, id>>
RemoveActionCalls ==
    {<<0, n, id>> : n \in {SOT, "fade"}, id \in NumIds \cup UuidIds}
    \cup { <<0, "nope", NumId(0)>>, <<1, SOT, NumId(0)>> }

\* thing.addAvailableAction calls an application may make after construction:
\* <<name, metadata has input, input schema, class>>
Registrations ==
    { <<"fade", TRUE, "fadeInput", "FadeAction">>,
      <<"count", TRUE, "intInput", "TestTimerAction">>,
      <<"toggle", FALSE, "", "TestTimerAction">>,
      <<SOT, TRUE, "timerInput", "TestTimerAction">> }

-----------------------------------------------------------------------------
(* The state machine *)

Idle == Answer("idle", 0, "", NoBody)

\* Thing.setHrefPrefix: the thing, its properties and the actions in its
\* lists take the prefix.
SetHrefPrefix(w, t, prefix) ==
    [w EXCEPT
       !.things[t].hrefPrefix = prefix,
       !.things[t].props = [n \in DOMAIN @ |-> [@[n] EXCEPT !.hrefPrefix = prefix]],
       !.inst = [h \in DOMAIN @ |->
                   IF @[h].thing = t /\ Listed(w, h)
                   THEN [@[h] EXCEPT !.hrefPrefix = prefix] ELSE @[h]]]

\* No stop() was called: no promise, no callback awaited.  `adv` is the
\* advertisement stop() found in this.mdns (0: none) and `listens` the number
\* of listen callbacks that were outstanding when it was called.
NoStop == [state |-> "none", awaited |-> {}, reported |-> {}, errors |-> {},
           force |-> FALSE, adv |-> 0, listens |-> 0]

\* The path '/' the constructor's basePath parameter defaults to
DefaultBasePath == <<"/">>

\* The state once new CoapWebThingServer(things, port, hostname, routes,
\* basePath) has run over SingleThing(lamp) or MultipleThings([lamp, sensor]).
Constructed(basePath) ==
    /\ mode \in {"single", "multi"}
    /\ server = [given |-> basePath, basePath |-> StripSlash(basePath),
                 ads |-> <<>>, listener |-> "created", listens |-> 0,
                 stop |-> NoStop, retry |-> 0]
    /\ things = LET list == IF mode = "single" THEN (0 :> Lamp)
                            ELSE (0 :> Lamp) @@ (1 :> HumiditySensor)
                    w0 == [things |-> list, inst |-> <<>>]
                IN [t \in DOMAIN list |->
                      SetHrefPrefix(w0, t, HrefPrefix(t)).things[t]]
    /\ inst = <<>>
    /\ count = 0
    /\ uuids = 0
    /\ regs = 0
    /\ written = [t \in DOMAIN things |->
                    [n \in DOMAIN things[t].props |-> things[t].props[n].value]]
    /\ closed = {}

\* No task is running.
Construct(basePath) == Constructed(basePath) /\ last = Idle

Init == Construct(DefaultBasePath)

\* An Action object that no list holds and no timer refers to is garbage.
Collected ==
    [ id |-> NumId(0), class |-> "", name |-> "", thing |-> 0, input |-> "",
      status |-> "collected", timeCompleted |-> FALSE, timer |-> "none",
      cancelled |-> FALSE, hrefPrefix |-> <<>> ]

Collect(w) ==
    [w EXCEPT !.inst = [h \in DOMAIN w.inst |->
                          IF Listed(w, h) \/ w.inst[h].timer = "armed"
                          THEN w.inst[h] ELSE Collected]]

\* The event loop runs one task at a time, to completion: the outcome
\* r = [w, a] of an operation becomes the next state.
Commit(r) ==
    /\ last.op = "idle"
    /\ Len(r.w.inst) <= MaxInst
    /\ things' = r.w.things
    /\ inst' = Collect(r.w).inst
    /\ count' = r.w.count
    /\ uuids' = r.w.uuids
    /\ last' = [r.a EXCEPT !.sent = r.w.sent]
    /\ UNCHANGED <<mode, regs, closed, server>>

\* The task is over: control is back in the event loop.
Return ==
    /\ last.op # "idle"
    /\ last' = Idle
    /\ UNCHANGED <<mode, things, inst, count, uuids, regs, written, closed, server>>

\* In single mode the routes carry no :thingId and SingleThing ignores it.
Routed(thingId) == mode = "multi" \/ thingId = 0

PropertiesGet ==
    \E thingId \in {0, 1, 2} :
        /\ Routed(thingId)
        /\ Commit(PropertiesHandlerGet(World, thingId))
        /\ UNCHANGED written

PropertyGet ==
    \E q \in GetRequests :
        /\ Routed(q[1])
        /\ Commit(PropertyHandlerGet(World, q[1], q[2]))
        /\ UNCHANGED written

\* `written` keeps, per property, the value of the last mutation that
\* succeeded: here the value the request carried when the answer is ok.
PropertyPut ==
    \E q \in PutRequests :
        LET r == PropertyHandlerPut(World, q[1], q[2], q[3]) IN
        /\ Routed(q[1])
        /\ Commit(r)
        /\ written' = IF r.a.status = "ok"
                      THEN [written EXCEPT ![GetThing(q[1])][q[2]] = q[3].map[q[2]]]
                      ELSE written

ActionsPost ==
    \E q \in ActionsPostRequests :
        /\ Routed(q[1])
        /\ Commit(ActionsHandlerPost(World, q[1], q[2]))
        /\ UNCHANGED written

ActionPost ==
    \E q \in ActionPostRequests :
        /\ Routed(q[1])
        /\ Commit(ActionHandlerPost(World, q[1], q[2], q[3]))
        /\ UNCHANGED written

ActionDelete ==
    \E q \in DeleteRequests :
        /\ Routed(q[1])
        /\ Commit(ActionIDHandlerDelete(World, q[1], q[2], q[3]))
        /\ UNCHANGED written

\* GET / of a server of several things
ThingsGet ==
    /\ mode = "multi"
    /\ \E host \in Hosts : Commit(ThingsHandlerGet(World, host))
    /\ UNCHANGED written

\* GET / of a single thing's server, GET /:thingId otherwise
ThingGet ==
    \E thingId \in {0, 1, 2} :
        /\ Routed(thingId)
        /\ \E host \in Hosts : Commit(ThingHandlerGet(World, thingId, host))
        /\ UNCHANGED written

\* GET /.well-known/core of a server of several things
CoresGet ==
    /\ mode = "multi"
    /\ \E host \in Hosts : Commit(CoresHandlerGet(World, host))
    /\ UNCHANGED written

\* GET /.well-known/core of a single thing's server
CoreGet ==
    /\ mode = "single"
    /\ \E host \in Hosts : Commit(CoreHandlerGet(World, 0, host))
    /\ UNCHANGED written

ActionsGet ==
    \E thingId \in {0, 1, 2} :
        /\ Routed(thingId)
        /\ Commit(ActionsHandlerGet(World, thingId))
        /\ UNCHANGED written

ActionGet ==
    \E q \in ActionGetRequests :
        /\ Routed(q[1])
        /\ Commit(ActionHandlerGet(World, q[1], q[2]))
        /\ UNCHANGED written

ActionIdGet ==
    \E q \in DeleteRequests :
        /\ Routed(q[1])
        /\ Commit(ActionIDHandlerGet(World, q[1], q[2], q[3]))
        /\ UNCHANGED written

ActionIdPut ==
    \E q \in ActionIdPutRequests :
        /\ Routed(q[1])
        /\ Commit(ActionIDHandlerPut(World, q[1], q[2], q[3], q[4]))
        /\ UNCHANGED written

EventsGet ==
    \E thingId \in {0, 1, 2} :
        /\ Routed(thingId)
        /\ Commit(EventsHandlerGet(World, thingId))
        /\ UNCHANGED written

EventGet ==
    \E q \in EventGetRequests :
        /\ Routed(q[1])
        /\ Commit(EventHandlerGet(World, q[1], q[2]))
        /\ UNCHANGED written

\* thing.setProperty(name, v), called by the application
CallSetProperty ==
    \E q \in SetPropertyCalls :
        LET t == q[1]
            r == SetProperty(World, t, q[2], q[3])
            a == [Answer("setProperty", t, q[2], NoBody) EXCEPT
                    !.val = q[3], !.prior = GetProperty(World, t, q[2]),
                    !.status = IF r.threw THEN "threw" ELSE "returned"]
        IN /\ t \in ThingIdx
           /\ Commit([w |-> r.w, a |-> a])
           /\ written' = IF ~r.threw /\ HasProperty(World, t, q[2])
                         THEN [written EXCEPT ![t][q[2]] = q[3]]
                         ELSE written

\* thing.removeProperty(property), called by the application; a removed
\* property has no last mutation any more.
CallRemoveProperty ==
    \E q \in RemovePropertyCalls :
        LET t == q[1]
            a == [Answer("removeProperty", t, q[2], NoBody) EXCEPT
                    !.prior = GetProperty(World, t, q[2]),
                    !.status = "returned"]
        IN /\ t \in ThingIdx
           /\ Commit([w |-> RemoveProperty(World, t, q[2]), a |-> a])
           /\ written' = [written EXCEPT
                             ![t] = [n \in DOMAIN @ \ {q[2]} |-> @[n]]]

\* thing.performAction(name, input), called by the application
CallPerformAction ==
    \E q \in PerformActionCalls :
        LET r == PerformAction(World, q[1], q[2], q[3])
            a == [Answer("performAction", q[1], q[2], NoBody) EXCEPT
                    !.val = q[3], !.ret = r.ret, !.status = "returned"]
        IN /\ q[1] \in ThingIdx
           /\ Commit([w |-> r.w, a |-> a])
           /\ UNCHANGED written

\* action.start(), called by the application on an action it created
CallStart ==
    \E h \in 1..Len(inst) :
        /\ inst[h].status = "created"
        /\ Commit([w |-> Microtasks(Start(World, h), <<h>>),
                   a |-> [Answer("start", inst[h].thing, "", NoBody) EXCEPT
                            !.ret = h, !.status = "returned"]])
        /\ UNCHANGED written

\* thing.removeAction(name, id), called by the application
CallRemoveAction ==
    \E q \in RemoveActionCalls :
        LET r == RemoveAction(World, q[1], q[2], q[3])
            a == [Answer("removeAction", q[1], q[2], NoBody) EXCEPT
                    !.id = q[3],
                    !.ret = r.cancelled,
                    !.cancelStatus = IF r.ret THEN inst[r.cancelled].status
                                     ELSE "",
                    !.status = IF r.ret THEN "true" ELSE "false"]
        IN /\ q[1] \in ThingIdx
           /\ Commit([w |-> r.w, a |-> a])
           /\ UNCHANGED written

\* thing.addAvailableAction(name, metadata, cls), called by the application
CallAddAvailableAction ==
    \E q \in Registrations :
        LET w == AddAvailableAction(World, 0, q[1], q[2], q[3], q[4]) IN
        /\ last.op = "idle"
        /\ regs < MaxRegs
        /\ regs' = regs + 1
        /\ things' = w.things
        /\ inst' = Collect(w).inst
        /\ last' = Answer("addAvailableAction", 0, q[1], NoBody)
        /\ UNCHANGED <<mode, count, uuids, written, closed, server>>

\* Thing.addSubscriber
AddSubscriber(w, t, ws) == [w EXCEPT !.things[t].subscribers = @ \cup {ws}]

\* thing.addSubscriber(ws), called by the application when a client connects
CallAddSubscriber ==
    \E ws \in {"ws1"} :
        /\ last.op = "idle"
        /\ ws \notin things[0].subscribers
        /\ things' = AddSubscriber(World, 0, ws).things
        /\ last' = Answer("addSubscriber", 0, ws, NoBody)
        /\ UNCHANGED <<mode, inst, count, uuids, regs, written, closed, server>>

\* The timer of a started action expires and its callback runs.
TimerFire ==
    \E h \in 1..Len(inst) :
        LET t == inst[h].thing
            w == TimerCallback(World, h)
            done == w.inst[h].status = "completed"
            prop == IF inst[h].class = "TestTimerAction" THEN "on"
                    ELSE "brightness"
        IN /\ inst[h].timer = "armed"
           /\ Commit([w |-> w,
                      a |-> [Answer("timer", t, "", NoBody) EXCEPT
                               !.ret = h,
                               !.late = /\ inst[h].cancelled
                                        /\ \/ w.things[t].props # things[t].props
                                           \/ w.things[t].events # things[t].events]])
           /\ written' = IF done /\ HasProperty(World, t, prop)
                         THEN [written EXCEPT ![t][prop] = w.things[t].props[prop].value]
                         ELSE written

Next ==
    \/ PropertiesGet
    \/ PropertyGet
    \/ PropertyPut
    \/ ActionsPost
    \/ ActionPost
    \/ ActionDelete
    \/ CallSetProperty
    \/ CallRemoveProperty
    \/ CallPerformAction
    \/ CallStart
    \/ CallRemoveAction
    \/ CallAddAvailableAction
    \/ CallAddSubscriber
    \/ TimerFire
    \/ Return

\* The Thing's programming interface together with the handlers that change
\* the model.
Spec == Init /\ [][Next]_vars

\* The server as its clients drive it: every route of the routing tables, the
\* timers of the actions they start, and an application that registers an
\* action and connects a subscriber.
NextCoap ==
    \/ ThingsGet
    \/ ThingGet
    \/ CoresGet
    \/ CoreGet
    \/ PropertiesGet
    \/ PropertyGet
    \/ PropertyPut
    \/ ActionsGet
    \/ ActionsPost
    \/ ActionGet
    \/ ActionPost
    \/ ActionIdGet
    \/ ActionIdPut
    \/ ActionDelete
    \/ EventsGet
    \/ EventGet
    \/ CallAddAvailableAction
    \/ CallAddSubscriber
    \/ TimerFire
    \/ Return

SpecCoap == Init /\ [][NextCoap]_vars

-----------------------------------------------------------------------------
(* The Thing and its subscribers *)

\* new Event(thing, name, data) objects the application emits: <<name, data>>
Events == { <<"overheated", "102">>, <<"other", "5">>, <<"nope", "5">> }

\* event subscriptions a client asks for: <<name, ws>>
EventSubscriptions ==
    { <<"overheated", "ws1">>, <<"overheated", "ws2">>, <<"other", "ws1">>,
      <<"other", "ws2">>, <<"nope", "ws1">> }

\* A client connects: thing.addSubscriber(ws)
Subscribe ==
    \E ws \in Handles :
        /\ ws \notin things[0].subscribers
        /\ Commit([w |-> AddSubscriber(World, 0, ws),
                   a |-> Answer("addSubscriber", 0, ws, NoBody)])
        /\ UNCHANGED written

\* A client's connection is taken down: thing.removeSubscriber(ws)
Unsubscribe ==
    \E ws \in Handles :
        /\ Commit([w |-> RemoveSubscriber(World, 0, ws),
                   a |-> Answer("removeSubscriber", 0, ws, NoBody)])
        /\ things' # things
        /\ UNCHANGED written

\* thing.addEventSubscriber(name, ws)
SubscribeEvent ==
    \E q \in EventSubscriptions :
        /\ Commit([w |-> AddEventSubscriber(World, 0, q[1], q[2]),
                   a |-> [Answer("addEventSubscriber", 0, q[1], NoBody)
                            EXCEPT !.val = q[2]]])
        /\ UNCHANGED written

\* thing.removeEventSubscriber(name, ws)
UnsubscribeEvent ==
    \E q \in EventSubscriptions :
        /\ Commit([w |-> RemoveEventSubscriber(World, 0, q[1], q[2]),
                   a |-> [Answer("removeEventSubscriber", 0, q[1], NoBody)
                            EXCEPT !.val = q[2]]])
        /\ things' # things
        /\ UNCHANGED written

\* thing.addAvailableEvent(name, metadata), called by the application
CallAddAvailableEvent ==
    \E name \in {"other"} :
        /\ name \notin DOMAIN things[0].availableEvents
        /\ Commit([w |-> AddAvailableEvent(World, 0, name),
                   a |-> Answer("addAvailableEvent", 0, name, NoBody)])
        /\ UNCHANGED written

\* thing.addEvent(new Event(thing, name, data)), called by the application
AddEventCall(q) ==
    /\ Len(things[0].events) < MaxEvents
    /\ Commit([w |-> AddEvent(World, 0, [name |-> q[1], data |-> q[2]]),
               a |-> [Answer("addEvent", 0, q[1], NoBody) EXCEPT
                        !.val = q[2], !.status = "returned"]])
    /\ UNCHANGED written

CallAddEvent == \E q \in Events : AddEventCall(q)

\* The connection of a subscriber closes while the Thing still holds its
\* handle: from now on its send throws.
Disconnect ==
    \E ws \in {"ws2"} :
        /\ last.op = "idle"
        /\ ws \notin closed
        /\ closed' = closed \cup {ws}
        /\ UNCHANGED <<mode, things, inst, count, uuids, regs, written, server, last>>

NextNotify ==
    \/ Subscribe
    \/ Unsubscribe
    \/ SubscribeEvent
    \/ UnsubscribeEvent
    \/ CallAddAvailableEvent
    \/ CallAddEvent
    \/ CallSetProperty
    \/ CallPerformAction
    \/ Disconnect
    \/ Return

\* new SingleThing(new Lamp())
InitSingle == Init /\ mode = "single"

\* A single Thing, the application that drives it and its subscribers.
SpecNotify == InitSingle /\ [][NextNotify]_vars

-----------------------------------------------------------------------------
(* The Thing's catalogs and its discovery payload *)

\* names an application registers actions and events under
CatalogNames == {"fade", "1", "7"}

\* thing.addAvailableAction(name, {}, cls)
RegisterAction ==
    \E name \in CatalogNames :
        /\ Len(things[0].actionKeys) < MaxKeys
        /\ name \notin DOMAIN things[0].availableActions
        /\ Commit([w |-> AddAvailableAction(World, 0, name, FALSE, "",
                                           "TestTimerAction"),
                   a |-> Answer("addAvailableAction", 0, name, NoBody)])
        /\ UNCHANGED written

\* thing.addAvailableEvent(name, {})
RegisterEvent ==
    \E name \in CatalogNames :
        /\ Len(things[0].eventKeys) < MaxKeys
        /\ name \notin DOMAIN things[0].availableEvents
        /\ Commit([w |-> AddAvailableEvent(World, 0, name),
                   a |-> Answer("addAvailableEvent", 0, name, NoBody)])
        /\ UNCHANGED written

\* thing.setUiHref(href), called by the application: null, '' or a path
UiHrefs == {"null", "", "/ui"}

CallSetUiHref ==
    \E href \in UiHrefs :
        /\ things[0].uiHref # href
        /\ Commit([w |-> SetUiHref(World, 0, href),
                   a |-> Answer("setUiHref", 0, href, NoBody)])
        /\ UNCHANGED written

NextDiscovery ==
    \/ RegisterAction
    \/ RegisterEvent
    \/ CallSetUiHref
    \/ ThingsGet
    \/ ThingGet
    \/ CoresGet
    \/ CoreGet
    \/ Return

\* The server's description and discovery routes over a Thing whose catalogs
\* the application extends.
SpecDiscovery == Init /\ [][NextDiscovery]_vars

-----------------------------------------------------------------------------
(* The event log and its routes *)

\* The events the application emits, two of them of one name
LogEvents == { <<"overheated", "102">>, <<"overheated", "5">>, <<"other", "5">> }

CallAddLogEvent == \E q \in LogEvents : AddEventCall(q)

NextEvents ==
    \/ CallAddLogEvent
    \/ EventsGet
    \/ EventGet
    \/ Return

\* An application that emits events and clients that read the log.
SpecEvents == Init /\ [][NextEvents]_vars

-----------------------------------------------------------------------------
(* Servers built over a base path *)

\* The basePath arguments: '/', '/api', '/api/' and '//'
BasePaths == { <<"/">>, <<"/", "api">>, <<"/", "api", "/">>, <<"/", "/">> }

InitHref == \E basePath \in BasePaths : Construct(basePath)

\* new Property(thing, 'brightness', new Value(255), {'@type':
\* 'BrightnessProperty', title: 'Brightness', type: 'number', ...}), the
\* property of the example thing ("255" is the JSON number 255).
Brightness ==
    [value |-> "255", type |-> "number", readOnly |-> FALSE,
     atType |-> "BrightnessProperty", title |-> "Brightness",
     hrefPrefix |-> <<>>]

\* thing.addProperty(property), called by the application
CallAddProperty ==
    /\ "brightness" \notin DOMAIN things[0].props
    /\ Commit([w |-> AddProperty(World, 0, "brightness", Brightness),
               a |-> Answer("addProperty", 0, "brightness", NoBody)])
    /\ written' = [written EXCEPT ![0] = ("brightness" :> Brightness.value) @@ @]

NextHref ==
    \/ ThingsGet
    \/ ThingGet
    \/ ActionPost
    \/ CallRemoveAction
    \/ CallAddProperty
    \/ CallRemoveProperty
    \/ TimerFire
    \/ Return

\* A server built over any base path, the descriptions it renders, the
\* actions its clients start and an application that adds and removes
\* properties and removes actions.
SpecHref == InitHref /\ [][NextHref]_vars

-----------------------------------------------------------------------------
(* CoapWebThingServer.start and stop *)

\* The server keeps the advertisements it has made in `ads`, each with its
\* state; this.mdns is the one made last, undefined before the first start().
\* `listener` is the state of this.server and `listens` the number of listen
\* callbacks not yet called.
Mdns(srv) == IF srv.ads = <<>> THEN "undefined" ELSE srv.ads[Len(srv.ads)]

\* start(), up to its return: a new Advertisement replaces this.mdns and is
\* started, and server.listen({port}, resolve) is called.  The callback is
\* not called yet and the promise returned is pending.
StartServer(srv) ==
    [srv EXCEPT !.ads = Append(@, "started"),
                !.listener = IF @ = "listening" THEN @ ELSE "listen-called",
                !.listens = @ + 1]

\* The listener calls the callback of listen: the promise of start() is
\* resolved.
Listening(srv) == [srv EXCEPT !.listener = "listening", !.listens = @ - 1]

\* stop(force): mdns.stop(force, callback) is called when this.mdns is set,
\* server.close(callback) always; the promise returned is Promise.all of the
\* promises of the two callbacks.
Stop(srv, force) ==
    [srv EXCEPT !.stop = [state |-> "pending",
                          awaited |-> (IF Mdns(srv) # "undefined" THEN {"mdns"}
                                       ELSE {}) \cup {"close"},
                          reported |-> {}, errors |-> {}, force |-> force,
                          adv |-> Len(srv.ads), listens |-> srv.listens]]

\* Mutant of Settle: the promise is resolved by the first callback that
\* reports no error.
SettleFirst(stop, who, error) ==
    [stop EXCEPT !.reported = @ \cup {who},
                 !.errors = IF error THEN @ \cup {who} ELSE @,
                 !.state = IF @ # "pending" THEN @
                           ELSE IF error THEN "rejected" ELSE "resolved"]

\* The callback of `who` ("mdns" or "close") is called with or without an
\* error: its promise is rejected or resolved, and Promise.all is rejected by
\* the first rejection and resolved once every promise is.
Settle(stop, who, error) ==
    [stop EXCEPT !.reported = @ \cup {who},
                 !.errors = IF error THEN @ \cup {who} ELSE @,
                 !.state = IF @ # "pending" THEN @
                           ELSE IF error THEN "rejected"
                           ELSE IF stop.reported \cup {who} = stop.awaited
                           THEN "resolved" ELSE "pending"]

\* server.start(), called by the application, in whatever state the server
\* is; the number of calls is bounded.
ServerStart ==
    /\ Len(server.ads) < MaxStarts
    /\ server' = StartServer(server)
    /\ UNCHANGED <<mode, things, inst, count, uuids, regs, written, closed, last>>

\* A later task: the listener reports that it listens.
ListenerListening ==
    /\ server.listens > 0
    /\ server' = Listening(server)
    /\ UNCHANGED <<mode, things, inst, count, uuids, regs, written, closed, last>>

\* server.stop(force), called by the application once the callbacks of an
\* earlier stop have been called
ServerStop ==
    \E force \in BOOLEAN :
        /\ server.stop.awaited = server.stop.reported
        /\ server' = Stop(server, force)
        /\ UNCHANGED <<mode, things, inst, count, uuids, regs, written, closed, last>>

\* The advertisement stop() was called on calls the callback of mdns.stop.
MdnsStopped ==
    \E error \in BOOLEAN :
        /\ "mdns" \in server.stop.awaited \ server.stop.reported
        /\ server' = [server EXCEPT
                        !.ads[server.stop.adv] =
                            IF error THEN "stopFailed" ELSE "stopped",
                        !.stop = Settle(@, "mdns", error)]
        /\ UNCHANGED <<mode, things, inst, count, uuids, regs, written, closed, last>>

\* The listener calls the callback of server.close.
ListenerClosed ==
    \E error \in BOOLEAN :
        /\ "close" \in server.stop.awaited \ server.stop.reported
        /\ server' = [server EXCEPT
                        !.listener = IF error THEN "closeFailed" ELSE "closed",
                        !.stop = Settle(@, "close", error)]
        /\ UNCHANGED <<mode, things, inst, count, uuids, regs, written, closed, last>>

NextServer ==
    \/ ServerStart
    \/ ListenerListening
    \/ ServerStop
    \/ MdnsStopped
    \/ ListenerClosed
    \/ ThingGet
    \/ Return

\* The server started and stopped by the application while a client asks for
\* the description.
SpecServer == Init /\ [][NextServer]_vars

-----------------------------------------------------------------------------
(* The link-format encoder over descriptions of every shape *)

\* The resources of a description's group: with one link, with two, without
\* a `links` key.
EncoderPrefix == <<"/", "0">>

PropertyResources ==
    { [name |-> "on", atType |-> "OnOffProperty", title |-> "On/Off",
       links |-> <<Link("property", Href(EncoderPrefix, "properties", "on"))>>],
      [name |-> "level", atType |-> "LevelProperty", title |-> "Humidity",
       links |-> <<Link("property", Href(EncoderPrefix, "properties", "level")),
                   Link("alternate", Href(EncoderPrefix, "properties", "level2"))>>],
      [name |-> "bare", atType |-> "Bare", title |-> "Bare"] }

ActionResources ==
    { [name |-> "fade",
       links |-> <<Link("action", Href(EncoderPrefix, "actions", "fade"))>>],
      [name |-> "toggle"] }

EventResources ==
    { [name |-> "overheated",
       links |-> <<Link("event", Href(EncoderPrefix, "events", "overheated"))>>],
      [name |-> "quiet"] }

TopLinks ==
    << Link("properties", Href(EncoderPrefix, "properties", "")),
       Link("actions", Href(EncoderPrefix, "actions", "")),
       Link("events", Href(EncoderPrefix, "events", "")) >>

\* The sequences of at most n members of S
SeqsUpTo(S, n) == UNION {[1..k -> S] : k \in 0..n}

\* The descriptions handed to the encoder: href and links present or not.
EncoderInputs ==
    { hr @@ ln @@ [properties |-> ps, actions |-> as, events |-> es] :
        hr \in {<<>>, [href |-> EncoderPrefix]},
        ln \in {<<>>, [links |-> <<>>], [links |-> TopLinks],
                [links |-> Append(TopLinks, Link("alternate", <<"/ui">>))]},
        ps \in SeqsUpTo(PropertyResources, MaxResources),
        as \in SeqsUpTo(ActionResources, 1),
        es \in SeqsUpTo(EventResources, 1) }

InitEncoder ==
    /\ Constructed(DefaultBasePath)
    /\ mode = "single"
    /\ \E d \in EncoderInputs :
          last = [op |-> "getCoreLinkFormat", description |-> d,
                  status |-> "", listed |-> <<>>]

\* helpers.getCoreLinkFormat(description)
Encode ==
    /\ last.op = "getCoreLinkFormat"
    /\ last.status = ""
    /\ last' = [last EXCEPT !.status = "ok",
                            !.listed = GetCoreLinkFormat(last.description)]
    /\ UNCHANGED <<mode, things, inst, count, uuids, regs, written, closed, server>>

NextEncoder == Encode

SpecEncoder == InitEncoder /\ [][NextEncoder]_vars

-----------------------------------------------------------------------------
(* A Thing with longer lists of actions *)

\* The outcome r of a task becomes the next state, with up to MaxLive Action
\* objects.
CommitLive(r) ==
    /\ last.op = "idle"
    /\ Len(r.w.inst) <= MaxLive
    /\ things' = r.w.things
    /\ inst' = Collect(r.w).inst
    /\ count' = r.w.count
    /\ uuids' = r.w.uuids
    /\ last' = [r.a EXCEPT !.sent = r.w.sent]
    /\ UNCHANGED <<mode, regs, closed, server, written>>

\* thing.performAction calls of an application that fills the lists
LivePerformActionCalls == { <<0, SOT, "d1">>, <<0, "fade", "b5d1">> }

CallPerformActionLive ==
    \E q \in LivePerformActionCalls :
        LET r == PerformAction(World, q[1], q[2], q[3])
            a == [Answer("performAction", q[1], q[2], NoBody) EXCEPT
                    !.val = q[3], !.ret = r.ret, !.status = "returned"]
        IN CommitLive([w |-> r.w, a |-> a])

\* thing.removeAction(name, id) with the id of an action that exists, under
\* either name
CallRemoveActionLive ==
    \E h \in 1..Len(inst) : \E n \in {SOT, "fade"} :
        LET t == inst[h].thing
            r == RemoveAction(World, t, n, inst[h].id)
            a == [Answer("removeAction", t, n, NoBody) EXCEPT
                    !.id = inst[h].id,
                    !.ret = r.cancelled,
                    !.cancelStatus = IF r.ret THEN inst[r.cancelled].status
                                     ELSE "",
                    !.status = IF r.ret THEN "true" ELSE "false"]
        IN /\ inst[h].status # "collected"
           /\ CommitLive([w |-> r.w, a |-> a])

\* thing.addAvailableAction('fade', ...), made once
CallAddFade ==
    LET w == AddAvailableAction(World, 0, "fade", TRUE, "fadeInput", "FadeAction") IN
    /\ last.op = "idle"
    /\ "fade" \notin DOMAIN things[0].availableActions
    /\ things' = w.things
    /\ inst' = Collect(w).inst
    /\ last' = Answer("addAvailableAction", 0, "fade", NoBody)
    /\ UNCHANGED <<mode, count, uuids, regs, written, closed, server>>

NextLive ==
    \/ CallPerformActionLive
    \/ CallRemoveActionLive
    \/ CallAddFade
    \/ CallStart
    \/ TimerFire
    \/ Return

SpecLive == Init /\ [][NextLive]_vars

-----------------------------------------------------------------------------
(* The advertisement's errors and the retry timer *)

\* The 'error' handler start() installs on its advertisement: the error is
\* logged and a timer of 10 s is armed.  The advertisement that failed
\* advertises no longer.
OnMdnsError(srv, i) == [srv EXCEPT !.ads[i] = "failed", !.retry = @ + 1]

\* The timer's callback: this.mdns.start(), on the advertisement this.mdns
\* holds when the timer expires
RetryCallback(srv) == [srv EXCEPT !.ads[Len(srv.ads)] = "started", !.retry = @ - 1]

\* An advertisement that advertises emits 'error', be it this.mdns or one a
\* later start() replaced.
MdnsError ==
    \E i \in 1..Len(server.ads) :
        /\ server.ads[i] = "started"
        /\ server.retry < MaxRetry
        /\ server' = OnMdnsError(server, i)
        /\ UNCHANGED <<mode, things, inst, count, uuids, regs, written, closed, last>>

\* A retry timer expires.
RetryFire ==
    /\ server.retry > 0
    /\ server' = RetryCallback(server)
    /\ UNCHANGED <<mode, things, inst, count, uuids, regs, written, closed, last>>

NextRetry ==
    \/ ServerStart
    \/ ListenerListening
    \/ ServerStop
    \/ MdnsStopped
    \/ ListenerClosed
    \/ MdnsError
    \/ RetryFire

\* The server started and stopped by the application while the advertisement
\* fails and its retry timers run.
SpecRetry == Init /\ [][NextRetry]_vars

-----------------------------------------------------------------------------
(* Properties *)

\* The thing a request or call of `last` addresses (-1: none)
Target == IF last.op \in {"setProperty", "performAction", "removeAction",
                          "start", "timer"}
          THEN last.thingId ELSE GetThing(last.thingId)

\* The handles in a list
Members(list) == {list[i] : i \in 1..Len(list)}

\* C1: for a property the Thing has, getProperty right after
\* setProperty(name, v) yields v when the property's constraints accept v,
\* and the value the property had before the call otherwise.
C1_SetThenGet ==
    (last.op = "setProperty" /\ HasProperty(World, last.thingId, last.name)) =>
        GetProperty(World, last.thingId, last.name) =
            IF PropertyAccepts(things[last.thingId].props[last.name], last.val)
            THEN last.val ELSE last.prior

\* C1 witness: setProperty('on', false) on a lamp that was on
C1_Witness ==
    /\ last.op = "setProperty" /\ last.name = "on"
    /\ last.val = "false" /\ last.prior = "true"
    /\ GetProperty(World, 0, "on") = "false"

\* C2: performAction(name, input) returns an instance exactly when the name
\* is registered and the input validates against the declared input schema,
\* if there is one; the instance returned has status created.
C2_PerformActionIff ==
    last.op = "performAction" =>
        LET avail == things[last.thingId].availableActions
            ok == /\ last.name \in DOMAIN avail
                  /\ avail[last.name].hasInput =>
                        Validate(avail[last.name].input, last.val)
        IN /\ (last.ret # 0) <=> ok
           /\ last.ret # 0 => inst[last.ret].status = "created"

\* C3: the work of an action cancelled before its completion changes no
\* property and appends no event afterwards.
C3_NoWorkAfterCancel == last.op = "timer" => ~last.late

\* C4: removeAction and the action-instance DELETE never invoke cancel() on an
\* action whose status is completed.
C4_CompletedNotCancelled ==
    last.op \in {"removeAction", "actionDELETE"} =>
        last.cancelStatus # "completed"

\* C5: removeAction / DELETE for a name and id that match no live instance
\* answer false / not-found, do not throw and change nothing of the model.
C5_RemoveMissing ==
    [][ LET a == last'
            t == IF a.op = "removeAction" THEN a.thingId ELSE GetThing(a.thingId)
            noLive == \/ t = -1
                      \/ a.name \notin DOMAIN things[t].actions
                      \/ \A h \in Members(things[t].actions[a.name]) :
                            inst[h].id # a.id
        IN (a.op \in {"removeAction", "actionDELETE"} /\ noLive) =>
              /\ a.status = IF a.op = "removeAction" THEN "false" ELSE "not-found"
              /\ things' = things
              /\ inst' = inst
              /\ a.sent = NoSent ]_vars

\* C5 witness: a removal that found nothing while an action was live
C5_Witness ==
    /\ last.op = "removeAction" /\ last.status = "false"
    /\ last.name = SOT
    /\ things[0].actions[SOT] # <<>>

\* C6: a properties GET and a property GET answer, for each property, the
\* value of the last mutation that succeeded.
C6_GetAfterPut ==
    /\ (last.op = "propertiesGET" /\ last.status = "ok") =>
          last.body.map = written[Target]
    /\ (last.op = "propertyGET" /\ last.status = "ok") =>
          last.val = written[Target][last.name]

\* C6 witness: the properties GET answers {on: false} after the PUT of false
\* (no action exists that could have switched the lamp off)
C6_Witness ==
    /\ last.op = "propertiesGET" /\ last.status = "ok" /\ Target = 0
    /\ last.body.map["on"] = "false"
    /\ inst = <<>>

\* C7: a property PUT on a resolved Thing that has the property answers
\* bad-request when the body lacks the name as a key, bad-request with the
\* value unchanged when setProperty rejects, and otherwise ok with the value
\* now stored.
C7_PutAnswers ==
    [][ LET a == last'
            t == GetThing(a.thingId)
        IN (a.op = "propertyPUT" /\ t # -1 /\ HasProperty(World, t, a.name)) =>
              IF ~HasOwnProperty(a.body, a.name)
              THEN a.status = "bad-request"
              ELSE IF ~PropertyAccepts(things[t].props[a.name], a.body.map[a.name])
              THEN a.status = "bad-request" /\ things' = things
              ELSE /\ a.status = "ok"
                   /\ a.val = a.body.map[a.name]
                   /\ things'[t].props[a.name].value = a.val ]_vars

\* C8 as stated: a property GET or PUT for a name the resolved Thing does not
\* have answers not-found whatever the body.
C8_AlwaysNotFound ==
    (last.op \in {"propertyGET", "propertyPUT"} /\ Target # -1
        /\ ~HasProperty(World, Target, last.name)) =>
        last.status = "not-found"

\* C8 amended: the GET answers not-found; the PUT answers not-found when the
\* body is an object that has the name as a key and bad-request when it is an
\* object without it; whatever the body, the answer is not ok and nothing of
\* the model changes.
C8_NotFoundAfterKeyCheck ==
    [][ LET a == last'
            t == GetThing(a.thingId)
        IN (a.op \in {"propertyGET", "propertyPUT"} /\ t # -1
              /\ ~HasProperty(World, t, a.name)) =>
              /\ a.op = "propertyGET" => a.status = "not-found"
              /\ (a.op = "propertyPUT" /\ a.body.kind = "object") =>
                    a.status = IF HasOwnProperty(a.body, a.name)
                               THEN "not-found" ELSE "bad-request"
              /\ a.status # "ok"
              /\ things' = things /\ inst' = inst
              /\ a.sent = NoSent ]_vars

\* C8 witness: the PUT of {on: true} to /properties/brightness of the lamp
C8_Witness ==
    /\ last.op = "propertyPUT" /\ Target = 0 /\ last.name = "brightness"
    /\ ~HasOwnProperty(last.body, "brightness") /\ last.body.kind = "object"
    /\ last.status = "bad-request"

\* C9: an actions POST on a resolved Thing creates and starts one instance
\* per entry whose name is registered and whose input validates, nothing for
\* the other entries, and answers created.
C9_PostCreatesPerEntry ==
    (last.op = "actionsPOST" /\ Target # -1) =>
        LET avail == things[Target].availableActions
            good(e) == /\ e.name \in DOMAIN avail
                       /\ avail[e.name].hasInput =>
                             Validate(avail[e.name].input,
                                      IF e.kind = "object" /\ e.hasInput
                                      THEN e.input ELSE "null")
            entries == last.body.map
        IN /\ last.status = "created"
           /\ Len(last.created) =
                 Cardinality({i \in 1..Len(entries) : good(entries[i])})
           /\ \A i \in 1..Len(last.created) :
                 inst[last.created[i]].status \in {"pending", "completed"}

\* C10: an action-by-name POST creates instances under the path's name only:
\* the other lists are unchanged and every message sent describes an action
\* of that name's list.
C10_PostScoped ==
    [][ LET a == last'
            t == GetThing(a.thingId)
            mine == IF a.name \in DOMAIN things'[t].actions
                    THEN Members(things'[t].actions[a.name]) ELSE {}
        IN (a.op = "actionPOST" /\ t # -1) =>
              /\ \A n \in DOMAIN things[t].actions \ {a.name} :
                    things'[t].actions[n] = things[t].actions[n]
              /\ DOMAIN things'[t].actions = DOMAIN things[t].actions
              /\ Members(a.created) \subseteq mine
              /\ Len(inst') = Len(inst) + Len(a.created)
              /\ \A ws \in Handles : \A i \in 1..Len(a.sent[ws]) :
                    a.sent[ws][i].ref \in Members(a.created) ]_vars

\* C10 witness: POST /actions/SwitchOffTimer with entries for SwitchOffTimer
\* and for fade, fade being registered and its input valid, a subscriber
\* listening
C10_Witness ==
    /\ last.op = "actionPOST" /\ Target = 0 /\ last.name = SOT
    /\ last.body = ObjectBody(<<TimerOk, FadeOk>>)
    /\ "fade" \in DOMAIN things[0].availableActions
    /\ Len(last.created) = 1
    /\ last.sent["ws1"] # <<>>

\* The world of the next state
WorldNext == [things |-> things', inst |-> inst', count |-> count',
              uuids |-> uuids', closed |-> closed', sent |-> NoSent]

\* The identifiers issued so far, as path text
IssuedTexts == {StrId(n) : n \in 0..(count - 1)}
               \cup {StrId(UuidBase + n) : n \in 0..(uuids - 1)}

\* C11: an action-instance DELETE that finds the instance invokes cancel() on
\* it, removes it from the live list and answers no-content; from then on no
\* request finds an instance under that name and id (an identifier that was
\* issued and is not live never becomes live), an action-instance GET or
\* DELETE for a name and id that are not live answers not-found, and the
\* actions GET does not list the removed instance.
C11_DeleteRemoves ==
    [][ LET a == last'
            t == GetThing(a.thingId)
            h == IF t = -1 THEN 0 ELSE GetAction(World, t, a.name, a.id)
        IN /\ (a.op = "actionDELETE" /\ h # 0) =>
                 /\ a.status = "no-content"
                 /\ a.ret = h /\ a.cancelStatus # ""
                 /\ GetAction(WorldNext, t, a.name, a.id) = 0
                 /\ h \notin Members(GetActionDescriptions(WorldNext, t, ""))
           /\ (a.op \in {"actionIdGET", "actionDELETE"} /\ t # -1 /\ h = 0) =>
                 a.status = "not-found"
           /\ a.op = "actionsGET" /\ a.status = "ok" =>
                 \A i \in 1..Len(a.listed) : Listed(World, a.listed[i])
           /\ \A u \in ThingIdx : \A n \in DOMAIN things[u].actions :
                 \A id \in IssuedTexts :
                    GetAction(World, u, n, id) = 0 =>
                        GetAction(WorldNext, u, n, id) = 0 ]_vars

\* C11 witness: a GET for the first fade action answers not-found after its
\* DELETE (a client's DELETE is all that takes a fade action off its list)
C11_Witness ==
    /\ last.op = "actionIdGET" /\ last.status = "not-found"
    /\ Target = 0 /\ last.name = "fade" /\ last.id = StrId(UuidBase)
    /\ uuids >= 1
    /\ "fade" \in DOMAIN things[0].actions

\* C12: an action-instance GET or DELETE answers not-found only when no live
\* instance of the path's action name has the path's identifier text, be the
\* identifier a number of the counter or a uuid token.
C12_LiveIsFound ==
    (last.op \in {"actionIdGET", "actionDELETE"} /\ Target # -1
        /\ last.status = "not-found"
        /\ last.name \in DOMAIN things[Target].actions) =>
        \A h \in Members(things[Target].actions[last.name]) :
            PathText(inst[h].id) # last.id

\* The requests that address one Thing
ThingOps == {"thingGET", "coreGET", "propertiesGET", "propertyGET",
             "propertyPUT", "actionsGET", "actionsPOST", "actionGET",
             "actionPOST", "actionIdGET", "actionIdPUT", "actionDELETE",
             "eventsGET", "eventGET"}

\* C13: a request whose Thing does not resolve is answered not-found, whatever
\* its method, path parameters and body (a malformed body included): no
\* exception of the body's parsing, nothing of the model changed, nothing
\* sent.
C13_ResolveFirst ==
    [][ LET a == last'
        IN (a.op \in ThingOps /\ GetThing(a.thingId) = -1) =>
              /\ a.status = "not-found"
              /\ things' = things /\ inst' = inst
              /\ count' = count /\ uuids' = uuids
              /\ a.created = <<>> /\ a.sent = NoSent ]_vars

\* C13 witness: an actions POST with a malformed body to a Thing the registry
\* does not have
C13_Witness ==
    /\ last.op = "actionsPOST" /\ last.body = MalformedBody
    /\ GetThing(last.thingId) = -1
    /\ last.status = "not-found"

\* C14: every request a handler serves ends with a response of one of the
\* five status classes, whatever its body.  (The 200 of the action-instance
\* PUT, which carries no payload, is counted with ok.)
C14_AlwaysAnswered ==
    last.op \in ThingOps \cup {"thingsGET", "coresGET"} =>
        last.status \in {"ok", "ok-empty", "created", "no-content",
                         "bad-request", "not-found"}

\* An entry of an actions POST that passes validation on the Thing t: an
\* object whose name is registered and whose input (null when it has none)
\* validates against the declared schema, if there is one.
ValidEntry(t, e) ==
    /\ e.kind = "object"
    /\ e.name \in DOMAIN things[t].availableActions
    /\ things[t].availableActions[e.name].hasInput =>
          Validate(things[t].availableActions[e.name].input,
                   IF e.hasInput THEN e.input ELSE "null")

\* C15: a validation failure changes nothing.  A property PUT whose value the
\* property rejects answers bad-request, leaves the model as it was and sends
\* nothing.  Of the entries of an actions POST, those with an unregistered
\* name or an invalid input create nothing: the properties and the event log
\* are unchanged, the lists of the names without a valid entry are unchanged,
\* no more instances exist than there are valid entries, and every message
\* sent describes an instance the request created.
C15_RejectionChangesNothing ==
    [][ LET a == last'
            t == GetThing(a.thingId)
            entries == a.body.map
            valid == {i \in 1..Len(entries) : ValidEntry(t, entries[i])}
        IN /\ ( /\ a.op = "propertyPUT" /\ t # -1 /\ a.body.kind = "object"
                /\ HasOwnProperty(a.body, a.name) /\ HasProperty(World, t, a.name)
                /\ ~PropertyAccepts(things[t].props[a.name], a.body.map[a.name]) ) =>
                 /\ a.status = "bad-request"
                 /\ things' = things /\ inst' = inst
                 /\ a.sent = NoSent
           /\ (a.op = "actionsPOST" /\ t # -1 /\ a.body.kind = "object") =>
                 /\ Len(a.created) <= Cardinality(valid)
                 /\ Len(inst') = Len(inst) + Len(a.created)
                 /\ things'[t].props = things[t].props
                 /\ things'[t].events = things[t].events
                 /\ \A n \in DOMAIN things[t].actions :
                       (\A i \in valid : entries[i].name # n) =>
                           things'[t].actions[n] = things[t].actions[n]
                 /\ \A ws \in Handles : \A i \in 1..Len(a.sent[ws]) :
                       a.sent[ws][i].ref \in Members(a.created)
                 /\ valid = {} => (things' = things /\ a.sent = NoSent) ]_vars

\* C15 witness: an actions POST whose only entry carries an invalid input,
\* on a lamp with a subscriber connected
C15_Witness ==
    /\ last.op = "actionsPOST" /\ Target = 0
    /\ last.body = ObjectBody(<<TimerBad>>)
    /\ "ws1" \in things[0].subscribers
    /\ last.status = "created" /\ last.created = <<>>

\* C16: the fan-out of a notification is best-effort.  When setProperty
\* stores a value, performAction creates an action or addEvent emits an event
\* of a registered name, every subscriber of that notification whose
\* connection is open receives the one message, whether or not the send to
\* another subscriber failed, and the call returns normally.
C16_BestEffortFanOut ==
    [][ LET a == last'
            t == a.thingId
            one(to, type) ==
                \A ws \in Handles :
                    IF ws \in to /\ ws \notin closed
                    THEN /\ Len(a.sent[ws]) = 1
                         /\ a.sent[ws][1].messageType = type
                         /\ a.sent[ws][1].key = a.name
                    ELSE a.sent[ws] = <<>>
        IN /\ ( /\ a.op = "setProperty" /\ HasProperty(World, t, a.name)
                /\ PropertyAccepts(things[t].props[a.name], a.val) ) =>
                 /\ a.status = "returned"
                 /\ one(things[t].subscribers, "propertyStatus")
           /\ (a.op = "performAction" /\ a.ret # 0) =>
                 /\ a.status = "returned"
                 /\ \A ws \in Handles :
                       IF ws \in things[t].subscribers /\ ws \notin closed
                       THEN /\ Len(a.sent[ws]) = 1
                            /\ a.sent[ws][1].messageType = "actionStatus"
                            /\ a.sent[ws][1].ref = a.ret
                       ELSE a.sent[ws] = <<>>
           /\ ( /\ a.op = "addEvent"
                /\ a.name \in DOMAIN things[t].availableEvents ) =>
                 /\ a.status = "returned"
                 /\ one(things[t].availableEvents[a.name].subscribers, "event") ]_vars

\* C16 witness: setProperty('on', false) with two subscribers, the connection
\* of one of them closed: the other has received the message
C16_Witness ==
    /\ last.op = "setProperty" /\ last.name = "on" /\ last.val = "false"
    /\ things[0].subscribers = {"ws1", "ws2"}
    /\ closed = {"ws2"}
    /\ Len(last.sent["ws1"]) = 1 /\ last.sent["ws2"] = <<>>
    /\ last.status = "returned"

\* C17: an event message goes only to the subscribers of that event's name,
\* a propertyStatus or actionStatus message only to the Thing-wide
\* subscribers.
C17_EventScope ==
    [][ \A ws \in Handles : \A i \in 1..Len(last'.sent[ws]) :
          LET m == last'.sent[ws][i] IN
          IF m.messageType = "event"
          THEN /\ m.key \in DOMAIN things[m.thing].availableEvents
               /\ ws \in things[m.thing].availableEvents[m.key].subscribers
          ELSE ws \in things[m.thing].subscribers ]_vars

\* C17 witness: an overheated event reaches ws2, subscribed to overheated
\* only, and not ws1, a Thing-wide subscriber that is subscribed to another
\* event
C17_Witness ==
    /\ last.op = "addEvent" /\ last.name = "overheated"
    /\ "other" \in DOMAIN things[0].availableEvents
    /\ "ws1" \in things[0].subscribers
    /\ "ws1" \in things[0].availableEvents["other"].subscribers
    /\ "ws1" \notin things[0].availableEvents["overheated"].subscribers
    /\ "ws2" \in things[0].availableEvents["overheated"].subscribers
    /\ "ws2" \notin things[0].subscribers
    /\ closed = {}
    /\ last.sent["ws1"] = <<>> /\ Len(last.sent["ws2"]) = 1

\* Whether the sequence s is a prefix of the sequence u
IsPrefix(s, u) == Len(s) <= Len(u) /\ SubSeq(u, 1, Len(s)) = s

\* C18: addEvent appends the event to the log whether or not its name is
\* registered, and no operation ever removes or changes a record of the log:
\* the log of a state is a prefix of the log of the next.
C18_LogAppendOnly ==
    [][ /\ \A t \in ThingIdx : IsPrefix(things[t].events, things'[t].events)
        /\ last'.op = "addEvent" =>
              things'[last'.thingId].events =
                  Append(things[last'.thingId].events,
                         [name |-> last'.name, data |-> last'.val]) ]_vars

\* C18 witness: an event of an unregistered name appended to a log that
\* already holds a record
C18_Witness ==
    /\ last.op = "addEvent" /\ last.name = "nope"
    /\ "nope" \notin DOMAIN things[0].availableEvents
    /\ Len(things[0].events) = 2
    /\ things[0].events[2].name = "nope"

\* C19: every record of a Thing's event log has a name of the Thing's
\* catalog of available events.
C19_LoggedNamesRegistered ==
    \A t \in ThingIdx : \A i \in 1..Len(things[t].events) :
        things[t].events[i].name \in DOMAIN things[t].availableEvents

\* The names of the entries of the group `group` in a discovery payload of
\* the Thing of prefix `prefix`, in the payload's order
RECURSIVE EntryNames(_, _, _)
EntryNames(payload, prefix, group) ==
    IF payload = <<>> THEN <<>>
    ELSE LET href == Head(payload).href
         IN (IF Len(href) = 3 /\ href[1] = prefix /\ href[2] = group
                /\ href[3] # ""
             THEN <<href[3]>> ELSE <<>>)
            \o EntryNames(Tail(payload), prefix, group)

\* C20: a discovery GET repeated with no mutation in between returns the
\* payload it returned before, and the entries of the actions and of the
\* events of each Thing follow the order of their registration.
C20_DiscoveryStableOrdered ==
    /\ last.op = "coreGET" =>
          /\ CoreHandlerGet(World, last.thingId, last.host).a.listed = last.listed
          /\ EntryNames(last.listed, HrefPrefix(0), "actions")
                = things[0].registered.actions
          /\ EntryNames(last.listed, HrefPrefix(0), "events")
                = things[0].registered.events
    /\ last.op = "coresGET" =>
          /\ CoresHandlerGet(World, last.host).a.listed = last.listed
          /\ \A t \in ThingIdx :
                /\ EntryNames(last.listed, HrefPrefix(t), "actions")
                      = things[t].registered.actions
                /\ EntryNames(last.listed, HrefPrefix(t), "events")
                      = things[t].registered.events

\* The number of links the resources of a group carry
RECURSIVE LinkCount(_)
LinkCount(resources) ==
    IF resources = <<>> THEN 0
    ELSE (IF "links" \in DOMAIN Head(resources) THEN Len(Head(resources).links)
          ELSE 0) + LinkCount(Tail(resources))

\* From position off + 1 on, the payload holds the links of the resources,
\* resource by resource and link by link.
InOrder(core, resources, off) ==
    \A i \in 1..Len(resources) :
        "links" \in DOMAIN resources[i] =>
            \A j \in 1..Len(resources[i].links) :
                core[off + LinkCount(SubSeq(resources, 1, i - 1)) + j].href
                    = resources[i].links[j].href

\* C21: the encoder emits the description's href when it has one, then one
\* entry per top-level link, then one entry per link of the properties, of
\* the actions and of the events that carry links, in this order and nothing
\* else: the number of entries is the number of these links.
C21_EncoderOrder ==
    (last.op = "getCoreLinkFormat" /\ last.status = "ok") =>
        LET d    == last.description
            core == last.listed
            o0   == IF "href" \in DOMAIN d THEN 1 ELSE 0
            nl   == IF "links" \in DOMAIN d THEN Len(d.links) ELSE 0
            o1   == o0 + nl
            o2   == o1 + LinkCount(d.properties)
            o3   == o2 + LinkCount(d.actions)
        IN /\ Len(core) = o3 + LinkCount(d.events)
           /\ o0 = 1 => core[1] = CoreLink(d.href, <<>>)
           /\ \A i \in 1..nl :
                 core[o0 + i] = CoreLink(d.links[i].href,
                                         <<"rt", d.links[i].rel, "ct=50">>)
           /\ InOrder(core, d.properties, o1)
           /\ InOrder(core, d.actions, o2)
           /\ InOrder(core, d.events, o3)

\* An encoded description with an href, four top-level links, a property
\* without links before one with two, an action and an event with a link.
C21_Witness ==
    /\ last.op = "getCoreLinkFormat"
    /\ last.status = "ok"
    /\ "href" \in DOMAIN last.description
    /\ "links" \in DOMAIN last.description
    /\ Len(last.description.links) = 4
    /\ Len(last.description.properties) = 2
    /\ "links" \notin DOMAIN last.description.properties[1]
    /\ LinkCount(last.description.properties) = 2
    /\ LinkCount(last.description.actions) = 1
    /\ LinkCount(last.description.events) = 1
    /\ Len(last.listed) = 9


\* The encoding of the description that GET on the thing's root returns
PerThing(t, host) ==
    GetCoreLinkFormat(ThingHandlerGet(World, t, host).a.listed[1])

\* The encodings of the things ts one after the other
RECURSIVE PerThings(_, _)
PerThings(ts, host) ==
    IF ts = <<>> THEN <<>>
    ELSE PerThing(Head(ts), host) \o PerThings(Tail(ts), host)

\* How often the entry e occurs in the payload
Occurrences(payload, e) ==
    Cardinality({i \in 1..Len(payload) : payload[i] = e})

\* C22: in both registry modes the discovery payload is the encodings of the
\* registered Things in registry order followed by the entries </> and
\* </.well-known/core>, each of which occurs once; the payload of a single
\* thing's server ends in these two.
C22_DiscoveryPayload ==
    last.op \in {"coreGET", "coresGET"} =>
        LET n == Len(last.listed) IN
        /\ last.status = "ok"
        /\ n >= 2
        /\ last.listed[n - 1] = CoreLink(<<"/">>, <<>>)
        /\ last.listed[n] = CoreLink(<<"/.well-known/core">>, <<>>)
        /\ Occurrences(last.listed, CoreLink(<<"/">>, <<>>)) = 1
        /\ Occurrences(last.listed, CoreLink(<<"/.well-known/core">>, <<>>)) = 1
        /\ SubSeq(last.listed, 1, n - 2)
              = PerThings(IF mode = "single" THEN <<0>> ELSE GetThings, last.host)

\* The discovery payload of two things, asked for after two registrations
C22_Witness ==
    /\ last.op = "coresGET"
    /\ last.status = "ok"
    /\ Cardinality(ThingIdx) = 2
    /\ Len(things[0].actionKeys) = 2
    /\ Len(things[0].eventKeys) = 2
    /\ Len(last.listed) = 2 + 9 + 5

\* The relations of the links of a description
Rels(d) == {d.links[i].rel : i \in 1..Len(d.links)}

\* C23: the links of every rendered description hold an entry for each of
\* the relations self, properties, actions and events, and an alternate entry
\* exactly when the Thing has a UI href set.
C23_DescriptionLinks ==
    (last.op \in {"thingGET", "thingsGET"} /\ last.status = "ok") =>
        \A i \in 1..Len(last.listed) :
            LET d == last.listed[i] IN
            /\ {"self", "properties", "actions", "events"} \subseteq Rels(d)
            /\ "alternate" \in Rels(d) <=> ~Falsy(things[d.thing].uiHref)

\* The href of a Thing: its prefix, or '/' when the prefix is ''
ThingHref(t) == IF things[t].hrefPrefix = <<>> THEN <<"/">>
                ELSE things[t].hrefPrefix

\* C24: a rendered description has an href field exactly when the Thing's
\* href is not '/', its base is coap://<request host> followed by the Thing's
\* href, and it declares securityDefinitions nosec_sc with scheme nosec and
\* security nosec_sc.
C24_HrefBaseSecurity ==
    (last.op \in {"thingGET", "thingsGET"} /\ last.status = "ok") =>
        \A i \in 1..Len(last.listed) :
            LET d == last.listed[i] IN
            /\ "href" \in DOMAIN d <=> ThingHref(d.thing) # <<"/">>
            /\ "href" \in DOMAIN d => d.href = ThingHref(d.thing)
            /\ d.base = <<"coap", "://", last.host>> \o ThingHref(d.thing)
            /\ d.securityDefinitions = [nosec_sc |-> [scheme |-> "nosec"]]
            /\ d.security = "nosec_sc"

\* The description of a single thing under '/', asked for with the host
\* mything.com: no href, base coap://mything.com/
C24_Witness ==
    /\ last.op = "thingGET"
    /\ last.status = "ok"
    /\ mode = "single"
    /\ server.given = <<"/">>
    /\ last.host = "mything.com"
    /\ "href" \notin DOMAIN last.listed[1]
    /\ last.listed[1].base = <<"coap", "://", "mything.com", "/">>

\* The base path after one separator at its end is stripped, per argument
Stripped(given) ==
    CASE given = <<"/">>             -> <<>>
      [] given = <<"/", "api">>      -> <<"/", "api">>
      [] given = <<"/", "api", "/">> -> <<"/", "api">>
      [] given = <<"/", "/">>        -> <<"/">>

\* C25: over a multi-thing registry the Thing at index i has the href prefix
\* basePath/i, basePath with one trailing separator stripped, in every state
\* (no request, action start, completion or cancellation changes it), and
\* every Property and every live Action of a Thing carries the prefix of its
\* Thing, those added after the server was built included.
C25_HrefPrefixFixed ==
    /\ mode = "multi" =>
          \A t \in ThingIdx :
              things[t].hrefPrefix = Stripped(server.given) \o <<"/", ToString(t)>>
    /\ \A t \in ThingIdx :
          \A n \in DOMAIN things[t].props :
              things[t].props[n].hrefPrefix = things[t].hrefPrefix
    /\ \A h \in 1..Len(inst) :
          Listed(World, h) =>
              inst[h].hrefPrefix = things[inst[h].thing].hrefPrefix

\* Under '/api/' the first of two things has a property added after the
\* server was built and a live action that has completed.
C25_Witness ==
    /\ mode = "multi"
    /\ server.given = <<"/", "api", "/">>
    /\ things[0].hrefPrefix = <<"/", "api", "/", "0">>
    /\ "brightness" \in DOMAIN things[0].props
    /\ \E h \in 1..Len(inst) :
          /\ Listed(World, h)
          /\ inst[h].status = "completed"
          /\ inst[h].hrefPrefix = <<"/", "api", "/", "0">>

\* C26: the promise of stop(force) is resolved only after the callback of
\* the listener's close and, where stop found an advertisement, the callback
\* of its stop have both reported success: that advertisement is stopped
\* and, when no start() and no outstanding listen callback came in between,
\* the listener is closed; once either has reported an error the promise is
\* not resolved; when start was never called, stop calls for the listener's
\* close only.
C26_StopAwaitsBoth ==
    [][ /\ (server.stop.state # "resolved" /\ server'.stop.state = "resolved") =>
              /\ "close" \in server'.stop.reported \ server'.stop.errors
              /\ (server'.stop.listens = 0
                  /\ Len(server'.ads) = server'.stop.adv) =>
                    server'.listener = "closed"
              /\ server'.stop.adv # 0 =>
                    /\ "mdns" \in server'.stop.reported \ server'.stop.errors
                    /\ server'.ads[server'.stop.adv] = "stopped"
        /\ server'.stop.errors # {} => server'.stop.state # "resolved"
        /\ (server'.stop # server.stop /\ server'.stop.reported = {}
            /\ Mdns(server) = "undefined") =>
              /\ server'.stop.awaited = {"close"}
              /\ server'.ads = <<>> ]_vars

\* A stop of a started and listening server whose two callbacks reported no
\* error
C26_Witness ==
    /\ server.stop.state = "resolved"
    /\ server.stop.awaited = {"mdns", "close"}
    /\ server.stop.listens = 0
    /\ Mdns(server) = "stopped"
    /\ server.listener = "closed"

\* The place of a status in created -> pending -> completed
Rank(status) == CASE status = "created"   -> 0
                  [] status = "pending"   -> 1
                  [] status = "completed" -> 2

\* The Action objects that exist: the heap without what was collected
Alive(heap) == {h \in 1..Len(heap) : heap[h].status # "collected"}

\* C27: the status of an Action follows created -> pending -> completed and
\* never moves backwards: the action performAction returns is created, start
\* makes it pending, it becomes completed only once its asynchronous work is
\* over, and timeCompleted is present exactly from completed on.
C27_StatusLifecycle ==
    [][ /\ \A h \in Alive(inst') :
              /\ inst'[h].status \in {"created", "pending", "completed"}
              /\ inst'[h].timeCompleted <=> inst'[h].status = "completed"
        /\ \A h \in Alive(inst) \cap Alive(inst') :
              /\ Rank(inst'[h].status) >= Rank(inst[h].status)
              /\ (inst[h].status = "created" /\ inst'[h].status # "created") =>
                    last'.op = "start"
              /\ (inst[h].status # "completed" /\ inst'[h].status = "completed") =>
                    inst'[h].timer \in {"fired", "rejected"}
        /\ (last'.op = "performAction" /\ last'.ret # 0) =>
              /\ last'.ret \notin 1..Len(inst)
              /\ inst'[last'.ret].status = "created"
        /\ last'.op = "start" =>
              inst'[last'.ret].status
                  = IF inst'[last'.ret].timer = "rejected" THEN "completed"
                    ELSE "pending" ]_vars

\* An action that performAction returned, that was started later and whose
\* timer has fired: it is completed and has its timeCompleted.
C27_Witness ==
    /\ last.op = "timer"
    /\ inst[last.ret].status = "completed"
    /\ inst[last.ret].timeCompleted
    /\ inst[last.ret].timer = "fired"
    /\ ~inst[last.ret].cancelled

\* C28: in both registry modes and in every reachable state, a GET on the
\* root path and a GET on the discovery path are answered ok with a body.
C28_RootAndDiscoveryOk ==
    /\ (\/ last.op \in {"thingsGET", "coresGET", "coreGET"}
        \/ last.op = "thingGET" /\ mode = "single") =>
          /\ last.status = "ok"
          /\ last.listed # <<>>
    /\ \A host \in Hosts :
          IF mode = "single"
          THEN /\ ThingHandlerGet(World, 0, host).a.status = "ok"
               /\ CoreHandlerGet(World, 0, host).a.status = "ok"
          ELSE /\ ThingsHandlerGet(World, host).a.status = "ok"
               /\ CoresHandlerGet(World, host).a.status = "ok"

\* The root of a server of two things, asked for once the lamp's property
\* was set, an event was logged and an action was removed.
C28_Witness ==
    /\ last.op = "thingsGET"
    /\ last.status = "ok"
    /\ Len(last.listed) = 2
    /\ things[0].props["on"].value = "false"
    /\ things[0].events # <<>>
    /\ \E h \in 1..Len(inst) : ~Listed(World, h)

\* The names of the resources of a description's group
Names(resources) == [i \in 1..Len(resources) |-> resources[i].name]

\* The description d shows the thing t as it is now.
Current(d, t) ==
    /\ d.thing = t
    /\ Names(d.properties) = things[t].propertyKeys
    /\ Names(d.actions) = things[t].actionKeys
    /\ Names(d.events) = things[t].eventKeys
    /\ "alternate" \in Rels(d) <=> ~Falsy(things[t].uiHref)
    /\ \A i \in 1..Len(d.links) : d.links[i].rel = "alternate" =>
          d.links[i].href = <<things[t].uiHref>>

\* C29: the root GET of a multi-thing server returns one description per
\* registered Thing, in registry order, each showing that Thing's current
\* state; a GET by a thing id that does not resolve is answered not-found.
C29_RootListsThings ==
    /\ last.op = "thingsGET" =>
          /\ last.status = "ok"
          /\ Len(last.listed) = Cardinality(ThingIdx)
          /\ \A i \in 1..Len(last.listed) : Current(last.listed[i], i - 1)
    /\ (last.op = "thingGET" /\ mode = "multi") =>
          IF last.thingId \in ThingIdx
          THEN /\ last.status = "ok"
               /\ Len(last.listed) = 1
               /\ Current(last.listed[1], last.thingId)
          ELSE /\ last.status = "not-found"
               /\ last.listed = <<>>

\* The root of a server of two things, asked for after an action and an
\* event were registered and a UI href was set on the first.
C29_Witness ==
    /\ last.op = "thingsGET"
    /\ last.status = "ok"
    /\ Len(last.listed) = 2
    /\ Len(last.listed[1].actions) = 2
    /\ Len(last.listed[1].events) = 2
    /\ "alternate" \in Rels(last.listed[1])
    /\ last.listed[2].thing = 1

\* How many of the first i records of the log have the name
CountName(log, name, i) == Cardinality({j \in 1..i : log[j].name = name})

\* C30: an events GET returns the whole log in append order; an event GET by
\* the name N returns the records of the log whose name is N, in the order
\* they have in the log, and the empty list, with ok, when there is none.
C30_EventLogReads ==
    LET t   == GetThing(last.thingId)
        log == things[t].events
    IN /\ (last.op = "eventsGET" /\ t # -1) =>
             /\ last.status = "ok"
             /\ last.listed = log
       /\ (last.op = "eventGET" /\ t # -1) =>
             /\ last.status = "ok"
             /\ Len(last.listed) = CountName(log, last.name, Len(log))
             /\ \A i \in 1..Len(log) :
                   log[i].name = last.name =>
                       last.listed[CountName(log, last.name, i)] = log[i]

\* The log holds two different records of the name asked for.
C30_Witness ==
    /\ last.op = "eventGET"
    /\ last.name = "overheated"
    /\ last.status = "ok"
    /\ Len(last.listed) = 2
    /\ last.listed[1] # last.listed[2]
    /\ things[0].events = last.listed

-----------------------------------------------------------------------------
(* The order of the steps of performAction *)

\* The messages of the sequence msgs that describe the action h
RECURSIVE About(_, _)
About(msgs, h) ==
    IF msgs = <<>> THEN <<>>
    ELSE IF Head(msgs).messageType = "actionStatus" /\ Head(msgs).ref = h
    THEN <<Head(msgs)>> \o About(Tail(msgs), h)
    ELSE About(Tail(msgs), h)

\* The message that tells of the creation of h: status created, sent while
\* h was in no list yet
Announces(m) == m.val = "created" /\ ~m.listed

\* C31: a successful performAction constructs the action in status created,
\* sends every Thing-wide subscriber exactly one actionStatus message of it
\* (status created, the action not yet in its list), appends it to the end of
\* its name's list and returns it still created; the POST handlers take the
\* description before they start the action, so every description of their
\* response says created although the action has left that status when the
\* response is written.
C31_PerformActionOrder ==
    [][ LET a == last'
            t == GetThing(a.thingId) IN
        /\ (a.op = "performAction" /\ a.ret # 0) =>
              /\ inst'[a.ret].status = "created"
              /\ things'[a.thingId].actions[a.name] =
                    Append(things[a.thingId].actions[a.name], a.ret)
              /\ \A ws \in Handles :
                    IF ws \in things[a.thingId].subscribers
                    THEN /\ Len(a.sent[ws]) = 1
                         /\ a.sent[ws][1].messageType = "actionStatus"
                         /\ a.sent[ws][1].ref = a.ret
                         /\ Announces(a.sent[ws][1])
                    ELSE a.sent[ws] = <<>>
        /\ (a.op \in {"actionsPOST", "actionPOST"} /\ a.status = "created") =>
              /\ \A n \in DOMAIN a.response :
                    /\ a.response[n].status = "created"
                    /\ a.response[n].ref \in Members(a.created)
                    /\ inst'[a.response[n].ref].status # "created"
              /\ \A i \in 1..Len(a.created) :
                    /\ inst'[a.created[i]].name \in DOMAIN a.response
                    /\ \A ws \in things[t].subscribers :
                          LET told == About(a.sent[ws], a.created[i]) IN
                          /\ told # <<>>
                          /\ Announces(told[1])
                          /\ \A k \in 2..Len(told) : ~Announces(told[k]) ]_vars

\* An actions POST on a thing with a subscriber created an action, the
\* subscriber was told and the response describes the action.
C31_Witness ==
    /\ last.op = "actionsPOST" /\ last.status = "created"
    /\ last.created # <<>> /\ DOMAIN last.response # {}
    /\ last.sent["ws1"] # <<>>
    /\ inst[last.created[1]].status = "pending"

-----------------------------------------------------------------------------
(* Identifiers of the live actions *)

\* No list of the world w holds two actions of one identifier.
UniqueIds(w) ==
    \A t \in DOMAIN w.things : \A n \in DOMAIN w.things[t].actions :
        LET list == w.things[t].actions[n] IN
        \A i, j \in 1..Len(list) :
            i # j => w.inst[list[i]].id # w.inst[list[j]].id

\* C32: no two actions of one name's list have the same identifier, and the
\* identifier an action was constructed with is the one it has for as long
\* as it exists, through start, completion and removal.
C32_IdsUniqueStable ==
    [][ /\ UniqueIds(WorldNext)
        /\ \A h \in Alive(inst) \cap Alive(inst') : inst'[h].id = inst[h].id ]_vars

\* A list holds two actions and the timer of one of them has just fired.
C32_Witness ==
    /\ last.op = "timer"
    /\ inst[last.ret].status = "completed"
    /\ \E n \in DOMAIN things[0].actions :
          /\ Len(things[0].actions[n]) = 2
          /\ last.ret \in Members(things[0].actions[n])

-----------------------------------------------------------------------------
(* The catalog of actions and the lists of actions *)

\* The action names the calls and requests of the model use
ActionNames == {SOT, "fade", "count", "toggle", "nope", "test"}

\* C33: the names that have a list of actions are the names of the catalog
\* of available actions; the action a performAction call returns is in the
\* list of its name, and getAction yields null for every name that is not
\* registered, whatever the identifier.
C33_ListsMatchCatalog ==
    \A t \in ThingIdx :
        /\ DOMAIN things[t].actions = DOMAIN things[t].availableActions
        /\ (last.op = "performAction" /\ last.thingId = t /\ last.ret # 0) =>
              last.ret \in Members(things[t].actions[last.name])
        /\ \A n \in ActionNames \ DOMAIN things[t].availableActions :
              \A id \in NumIds \cup UuidIds \cup {inst[h].id : h \in Alive(inst)} :
                  GetAction(World, t, n, id) = 0

\* An action of a name registered after construction was performed.
C33_Witness ==
    /\ last.op = "performAction" /\ last.name = "fade" /\ last.ret # 0
    /\ "fade" \notin DOMAIN Lamp.availableActions
    /\ last.ret \in Members(things[0].actions["fade"])

-----------------------------------------------------------------------------
(* What removeAction changes *)

\* The position of the first action of the list with the identifier id, 0 if
\* there is none
FirstWithId(heap, list, id) ==
    IF \E i \in 1..Len(list) : heap[list[i]].id = id
    THEN CHOOSE i \in 1..Len(list) :
            /\ heap[list[i]].id = id
            /\ \A j \in 1..(i - 1) : heap[list[j]].id # id
    ELSE 0

\* C34: a removeAction(name, id) that returns true takes exactly one action
\* out of the list of that name, the first one with that id; the actions left
\* keep their order; the lists of the other names, the property values and
\* the event log are what they were.
C34_RemoveActionFrame ==
    [][ LET a == last' IN
        (a.op = "removeAction" /\ a.status = "true") =>
            LET t    == a.thingId
                list == things[t].actions[a.name]
                i    == FirstWithId(inst, list, a.id)
            IN /\ i # 0
               /\ list[i] = a.ret
               /\ things'[t].actions[a.name] =
                     [k \in 1..(Len(list) - 1) |->
                        IF k < i THEN list[k] ELSE list[k + 1]]
               /\ \A n \in DOMAIN things[t].actions \ {a.name} :
                     things'[t].actions[n] = things[t].actions[n]
               /\ DOMAIN things'[t].actions = DOMAIN things[t].actions
               /\ things'[t].props = things[t].props
               /\ things'[t].events = things[t].events
               /\ \A u \in ThingIdx \ {t} : things'[u] = things[u] ]_vars

\* The first of three actions of a list was removed while another name has
\* an action too: two actions stay behind, in their order.
C34_Witness ==
    /\ last.op = "removeAction" /\ last.status = "true"
    /\ Len(things[0].actions[SOT]) = 2
    /\ things[0].actions[SOT][1] < things[0].actions[SOT][2]
    /\ last.ret < things[0].actions[SOT][1]

-----------------------------------------------------------------------------
(* How an action leaves its list *)

\* The actions getActionDescriptions() of the thing t lists
Described(w, t) == Members(GetActionDescriptions(w, t, ""))

\* C35: an action leaves the list of its thing only by a removeAction that
\* found it, called by the application or by the DELETE handler; start and
\* completion leave it in its list, and every action of a list is what
\* getAction yields for its name and id and is listed by
\* getActionDescriptions.
C35_LeavesOnlyByRemove ==
    [][ /\ \A h \in Alive(inst) :
              (Listed(World, h) /\ ~Listed(WorldNext, h)) =>
                  /\ last'.op \in {"removeAction", "actionDELETE"}
                  /\ last'.ret = h
        /\ \A t \in ThingIdx : \A n \in DOMAIN things'[t].actions :
              \A h \in Members(things'[t].actions[n]) :
                  /\ GetAction(WorldNext, t, n, inst'[h].id) = h
                  /\ h \in Described(WorldNext, t) ]_vars

-----------------------------------------------------------------------------
(* What rendering changes *)

\* The requests that render descriptions: GET / and GET /.well-known/core
Renderings == {"thingsGET", "thingGET", "coresGET", "coreGET"}

\* C36: a root GET and a discovery GET, and with them asThingDescription and
\* getDescription, leave the Thing as it was: the metadata objects of the
\* catalogs of actions and events, the property values, the lists of
\* actions, the event log and the subscriber sets.
C36_RenderingReadOnly ==
    [][ last'.op \in Renderings =>
          /\ things' = things
          /\ inst' = inst
          /\ written' = written ]_vars

-----------------------------------------------------------------------------
(* The advertisement after stop *)

\* C37: once a stop() has completed, an advertisement that was stopped is
\* not started again: a start() of the application makes a new
\* advertisement, and a retry timer armed before the stop() starts none.
C37_NoRestartAfterStop ==
    [][ \A i \in 1..Len(server.ads) :
          (server.stop.state = "resolved" /\ server.ads[i] = "stopped") =>
              server'.ads[i] # "started" ]_vars

-----------------------------------------------------------------------------
(* A subscriber that was removed *)

\* The handles a thing would send something to: its Thing-wide subscribers
\* and the subscribers of its events
Subscribed(th) ==
    th.subscribers \cup
    UNION {th.availableEvents[n].subscribers : n \in DOMAIN th.availableEvents}

\* C38: after removeSubscriber(ws) the handle is in neither the Thing-wide
\* set nor the set of any event; a handle that is in none of the sets is
\* sent nothing, whatever the message, and enters a set only by
\* addSubscriber or addEventSubscriber for that handle; addEventSubscriber
\* for a name that is no available event changes nothing.
C38_RemovedSubscriberSilent ==
    [][ LET a == last' IN
        /\ a.op = "removeSubscriber" => a.name \notin Subscribed(things'[0])
        /\ \A ws \in Handles \ Subscribed(things[0]) :
              /\ a.sent[ws] = <<>>
              /\ ws \in Subscribed(things'[0]) =>
                    \/ a.op = "addSubscriber" /\ a.name = ws
                    \/ a.op = "addEventSubscriber" /\ a.val = ws
        /\ ( /\ a.op = "addEventSubscriber"
             /\ a.name \notin DOMAIN things[0].availableEvents ) =>
              things' = things ]_vars

\* ws1 was removed while ws2 still subscribes to the thing and to an event.
C38_Witness ==
    /\ last.op = "removeSubscriber" /\ last.name = "ws1"
    /\ "ws1" \notin Subscribed(things[0])
    /\ "ws2" \in things[0].subscribers
    /\ "ws2" \in things[0].availableEvents["overheated"].subscribers
    /\ things[0].events # <<>>

=============================================================================
